---- MODULE Spec2Model ----
(***************************************************************************)
(* A model of webchanges' job execution and diff-state lifecycle:          *)
(* handler.JobState (load, save, process, get_diff), handler.Report        *)
(* (result setters, get_filtered_job_states) and the snapshot store they   *)
(* use.                                                                    *)
(*                                                                         *)
(* Text values (data, diffs, tracebacks) are sequences of strings: the     *)
(* empty sequence is Python's '' and a filter or differ, whose algorithms  *)
(* live outside this code, appends its own tag to the text it is given.    *)
(***************************************************************************)
EXTENDS Integers, Sequences, FiniteSets, TLC

\* ------------------------------------------------------------------ bounds

\* The clock may be read (time.time()) at most this many times.
MaxTime == 4

\* The store keeps at most this many snapshots per GUID in the model.
MaxHistory == 2

\* ------------------------------------------------------------- vocabulary

\* The model's image of 1605147837.511478, the default old timestamp; the
\* clock starts after it.
Epoch == 0

\* An attribute that is only annotated in the class body and not yet assigned
\* (reading it raises AttributeError).
Unset == <<"<unset>">>

UnsetStr == "<unset>"

UnsetTime == -1

EmptyStr == <<>>

Kinds == {"text", "markdown", "html"}

Verbs == {"new", "changed", "changed,no_report", "unchanged", "error"}

\* No diff computed yet: the {} of JobState.__init__.
EmptyMap == [k \in {} |-> EmptyStr]

\* Exceptions are identified by their class and by the call that raised them.
None == [cls |-> "None", by |-> "-"]

Exc(cls, by) == [cls |-> cls, by |-> by]

IsNotModified(e) == e.cls = "NotModifiedError"

Snapshot(data, timestamp, tries, etag, mime_type) ==
    [data |-> data, timestamp |-> timestamp, tries |-> tries, etag |-> etag,
     mime_type |-> mime_type]

\* No snapshot.
NoSnapshot == Snapshot(Unset, UnsetTime, 0 - 1, UnsetStr, UnsetStr)

\* The class-level default of JobState.old_snapshot.
DefaultSnapshot == Snapshot(EmptyStr, Epoch, 0, "", "text/plain")

\* ------------------------------------------------------------------- jobs

\* Two configured jobs. "j1" has two explicit filters, two diff filters and
\* compares against three versions; "j2" has none of these.
Jobs == {"j1", "j2"}

get_guid(job) == IF job = "j1" THEN "guid1" ELSE "guid2"

Guids == {get_guid(job) : job \in Jobs}

JobFilter(job) == IF job = "j1" THEN <<"f1", "f2">> ELSE <<>>

JobDiffFilter(job) == IF job = "j1" THEN <<"df1", "df2">> ELSE <<>>

\* "j3" is the second job configured with compared_versions: 1.
JobComparedVersions(job) == IF job = "j1" THEN 3 ELSE IF job = "j3" THEN 1 ELSE 0

\* What job.retrieve can raise: "j1" watches a URL, whose retrieval fails or
\* answers that nothing was modified; "j2" runs a command, which exits with an
\* error or is not found.
RetrieveExceptions(job) ==
    IF job = "j1" THEN {"ValueError", "NotModifiedError"}
    ELSE {"CalledProcessError", "FileNotFoundError"}

\* What job.retrieve can return: (data, etag, mime_type).
Retrieved ==
    { <<(<<"A">>), "e1", "text/html">>,
      <<(<<"B">>), "", "text/plain">> }

\* FilterBase.auto_process and FilterBase.process, whose algorithms are
\* outside this code: the text is tagged with the filter applied.
AutoProcess(data, mime_type) == <<Append(data, "auto"), mime_type>>

FilterProcess(kind, data, mime_type) ==
    <<Append(data, kind), IF kind = "f1" THEN "text/plain" ELSE mime_type>>

\* ApplyFilters calling the filters from the last of the list to the first.
RECURSIVE ApplyFilters_Reversed(_, _, _)
ApplyFilters_Reversed(filters, data, mime_type) ==
    IF filters = <<>> THEN <<data, mime_type>>
    ELSE LET r == FilterProcess(filters[Len(filters)], data, mime_type)
         IN ApplyFilters_Reversed(SubSeq(filters, 1, Len(filters) - 1), r[1], r[2])

RECURSIVE ApplyFilters(_, _, _)
ApplyFilters(filters, data, mime_type) ==
    IF filters = <<>> THEN <<data, mime_type>>
    ELSE LET r == FilterProcess(Head(filters), data, mime_type)
         IN ApplyFilters(Tail(filters), r[1], r[2])

\* job.format_error(exception, traceback): the error-formatted text.
FormatError(e) == <<"error", e.cls, e.by>>

IsErrorPayload(data) == Len(data) > 0 /\ data[1] = "error"

\* What job.ignore_error can return: a bool or an explanatory string.
IgnoreValues == {"False", "True", "''", "'msg'"}

Truthy(v) == v \in {"True", "'msg'"}

\* The jobs of the jobs file, in its order.
JobList == <<"j1", "j2">>

\* No run of error_jobs_lines is in progress.
NoBatch == [pc |-> "idle"]

\* ------------------------------------------------------------------ state

VARIABLES
    store,      \* the snapshot store: GUID -> snapshots, most recent first
    js,         \* the JobState objects
    now,        \* the clock time.time() reads
    pycharm,    \* whether the environment sets PYCHARM_HOSTED
    last,       \* the last operation: what it called and how it ended
    saved,      \* per GUID, the snapshot the last save() built for it
    Report_job_states,  \* the list the class attribute Report.job_states holds
    reports,    \* the Report objects: their own job_states attribute, if any
    config,     \* the configuration: config['display'] and config['report']['tz']
    urlwatcher_jobs,  \* urlwatcher.jobs: the jobs of the jobs file, in its order
    batch       \* the run of error_jobs_lines in progress: its pool and its tasks

vars == <<store, js, now, pycharm, last, saved, Report_job_states, reports, config,
         urlwatcher_jobs, batch>>

\* What the job run operations leave alone, and what the report operations do.
reportVars == <<Report_job_states, reports, config, urlwatcher_jobs, batch>>

runVars == <<store, saved, now, pycharm>>

JobStateIds == {1, 2}

\* JobState.__init__ over the class-level defaults.
NewJobState(snapshots_db, job) ==
    [job |-> job,
     snapshots_db |-> snapshots_db,
     error_ignored |-> UnsetStr,
     exception |-> None,
     generated_diff |-> EmptyMap,
     history_dic_snapshots |-> {},
     new_data |-> Unset,
     new_etag |-> UnsetStr,
     new_mime_type |-> "",
     new_timestamp |-> UnsetTime,
     old_snapshot |-> DefaultSnapshot,
     old_data |-> EmptyStr,
     old_etag |-> "",
     old_mime_type |-> "text/plain",
     old_timestamp |-> Epoch,
     traceback |-> Unset,
     tries |-> 0,
     unfiltered_diff |-> EmptyMap,
     verb |-> UnsetStr]

\* ------------------------------------------------------ the snapshot store

\* SsdbStorage.load: the most recent snapshot of the GUID.
StoreLoad(st, guid) ==
    IF st[guid] = <<>> THEN DefaultSnapshot ELSE Head(st[guid])

\* SsdbStorage.save: the snapshot becomes the most recent one of the GUID.
StoreSave(st, guid, snapshot) == [st EXCEPT ![guid] = <<snapshot>> \o @]

\* SsdbStorage.get_history_snapshots: at most count snapshots, most recent
\* first.
StoreHistory(st, guid, count) ==
    SubSeq(st[guid], 1, IF count < Len(st[guid]) THEN count ELSE Len(st[guid]))

\* SsdbStorage.delete_latest: the most recent snapshot of the GUID is removed;
\* the result says whether there was one.
StoreDeleteLatest(st, guid) ==
    IF st[guid] = <<>> THEN [store |-> st, deleted |-> FALSE]
    ELSE [store |-> [st EXCEPT ![guid] = Tail(@)], deleted |-> TRUE]

\* ------------------------------------------------------------ JobState.load

\* {s.data: s for s in snapshots}: a later snapshot of the list replaces an
\* earlier one with the same data.
HistoryDict(snapshots) ==
    { snapshots[k] : k \in { i \in 1..Len(snapshots) :
        \A m \in (i + 1)..Len(snapshots) : snapshots[m].data # snapshots[i].data } }

\* LoadUnpack with the error counter left out of the tuple assignment.
LoadUnpack_KeepTries(s, snapshot) ==
    [s EXCEPT !.old_snapshot = snapshot,
              !.old_data = snapshot.data,
              !.old_timestamp = snapshot.timestamp,
              !.old_etag = snapshot.etag,
              !.old_mime_type = snapshot.mime_type]

\* LoadUnpack with etag and mime_type taken in the wrong order.
LoadUnpack_Swapped(s, snapshot) ==
    [s EXCEPT !.old_snapshot = snapshot,
              !.old_data = snapshot.data,
              !.old_timestamp = snapshot.timestamp,
              !.tries = snapshot.tries,
              !.old_etag = snapshot.mime_type,
              !.old_mime_type = snapshot.etag]

\* The tuple assignment of load(): the five fields of old_snapshot.
LoadUnpack(s, snapshot) ==
    [s EXCEPT !.old_snapshot = snapshot,
              !.old_data = snapshot.data,
              !.old_timestamp = snapshot.timestamp,
              !.tries = snapshot.tries,
              !.old_etag = snapshot.etag,
              !.old_mime_type = snapshot.mime_type]

\* WantsHistory with the second half of the condition of line 146 left out.
WantsHistory_Truthy(job) == JobComparedVersions(job) # 0

\* Whether load() also asks for the history.
WantsHistory(job) == JobComparedVersions(job) # 0 /\ JobComparedVersions(job) > 1

\* load(): every way it can end. The store may fail on either call (it is
\* I/O), and a JobState built with snapshots_db = None has no store at all.
LoadResults(s, st) ==
    IF s.snapshots_db = "None"
    THEN {[s |-> s, exc |-> Exc("AttributeError", "load"), calls |-> <<>>]}
    ELSE LET guid == get_guid(s.job)
             s1 == LoadUnpack(s, StoreLoad(st, guid))
             hist == StoreHistory(st, guid, JobComparedVersions(s.job))
         IN {[s |-> s, exc |-> Exc("OSError", "load"), calls |-> <<"load">>]}
            \cup
            (IF WantsHistory(s.job)
             THEN {[s |-> s1, exc |-> Exc("OSError", "get_history_snapshots"),
                    calls |-> <<"load", "get_history_snapshots">>],
                   [s |-> [s1 EXCEPT !.history_dic_snapshots = HistoryDict(hist)],
                    exc |-> None,
                    calls |-> <<"load", "get_history_snapshots">>]}
             ELSE {[s |-> s1, exc |-> None, calls |-> <<"load">>]})

\* --------------------------------------------------------- JobState.process

\* ShortCircuit that never takes the early return.
ShortCircuit_Never(s) == FALSE

\* Line 184: a JobState that already holds an exception is not run.
ShortCircuit(s) == s.exception # None

\* CountsAsError testing `error_ignored is False` in place of falsiness.
CountsAsError_OnlyFalse(error_ignored, e) ==
    error_ignored = "False" /\ ~IsNotModified(e)

\* CountsAsError without the test for the not-modified signal.
CountsAsError_NotModifiedCounts(error_ignored, e) == ~Truthy(error_ignored)

\* Line 220: the error counts as a failed run unless the job ignores it or it
\* is the not-modified signal.
CountsAsError(error_ignored, e) == ~(Truthy(error_ignored) \/ IsNotModified(e))

\* OuterCountsAsError counting the not-modified signal of a hook too.
OuterCountsAsError_Always(e) == TRUE

\* Line 233: in the outer handler only the not-modified signal is excused.
OuterCountsAsError(e) == ~IsNotModified(e)

\* The names of the first k explicit filters, as they are called.
FilterCalls(filters, k) == [i \in 1..k |-> filters[i]]

\* PipelineResults with new_data assigned as soon as the automatic filter
\* has returned, before the explicit filters.
PipelineResults_AssignsEarly(s, t) ==
    LET st == [s EXCEPT !.new_timestamp = t]
        filters == JobFilter(s.job)
    IN  UNION { LET auto == AutoProcess(r[1], r[3])
                    sr == [st EXCEPT !.new_etag = r[2], !.new_data = auto[1]]
                    done == ApplyFilters(filters, auto[1], auto[2])
                IN  { [s |-> sr, exc |-> Exc("ValueError", filters[k]),
                       calls |-> <<"retrieve", "auto_process">> \o FilterCalls(filters, k)] :
                        k \in 1..Len(filters) }
                    \cup
                    { [s |-> [sr EXCEPT !.new_data = done[1], !.new_mime_type = done[2]],
                       exc |-> None,
                       calls |-> <<"retrieve", "auto_process">>
                                 \o FilterCalls(filters, Len(filters))] }
              : r \in Retrieved }

\* Lines 193-210 after a load that succeeded, reading the clock at t: the
\* retrieval, the automatic filter, the explicit filters in order, and only
\* then the assignment of new_data and new_mime_type. Any of the calls may
\* raise.
PipelineResults(s, t) ==
    LET st == [s EXCEPT !.new_timestamp = t]
        filters == JobFilter(s.job)
    IN  { [s |-> st, exc |-> Exc(cls, "retrieve"), calls |-> <<"retrieve">>] :
            cls \in RetrieveExceptions(s.job) }
        \cup
        UNION { LET sr == [st EXCEPT !.new_etag = r[2]]
                    auto == AutoProcess(r[1], r[3])
                    done == ApplyFilters(filters, auto[1], auto[2])
                IN  { [s |-> sr, exc |-> Exc("ValueError", "auto_process"),
                       calls |-> <<"retrieve", "auto_process">>] }
                    \cup
                    { [s |-> sr, exc |-> Exc("ValueError", filters[k]),
                       calls |-> <<"retrieve", "auto_process">> \o FilterCalls(filters, k)] :
                        k \in 1..Len(filters) }
                    \cup
                    { [s |-> [sr EXCEPT !.new_data = done[1], !.new_mime_type = done[2]],
                       exc |-> None,
                       calls |-> <<"retrieve", "auto_process">>
                                 \o FilterCalls(filters, Len(filters))] }
              : r \in Retrieved }

\* Lines 190-210, the body of the inner try: load(), then the pipeline. Each
\* result carries the clock as the body leaves it.
BodyResults(s, st, t) ==
    UNION { IF lr.exc # None
            THEN { [s |-> lr.s, exc |-> lr.exc, calls |-> lr.calls, now |-> t] }
            ELSE { [s |-> pr.s, exc |-> pr.exc, calls |-> lr.calls \o pr.calls,
                    now |-> t + 1] : pr \in PipelineResults(lr.s, t) }
          : lr \in LoadResults(s, st) }

\* The classes an exception raised by one of the job's own hooks can have.
HookExceptions == {"ValueError", "NotModifiedError"}

\* InnerHandler counting the failed run before ignore_error is asked.
InnerHandler_CountsFirst(b) ==
    LET e == b.exc
        s2 == [b.s EXCEPT !.new_timestamp = b.now, !.exception = e,
                          !.traceback = FormatError(e), !.tries = @ + 1]
    IN  { [s |-> s2, exc |-> Exc(cls, "ignore_error"),
           calls |-> b.calls \o <<"format_error", "ignore_error">>, now |-> b.now + 1,
           ignore |-> "raised"] : cls \in HookExceptions }
        \cup
        { [s |-> [s2 EXCEPT !.error_ignored = v], exc |-> None,
           calls |-> b.calls \o <<"format_error", "ignore_error">>, now |-> b.now + 1,
           ignore |-> v] : v \in IgnoreValues }

\* Lines 212-225, the inner handler for the exception e of the body b: the
\* job formats the error and decides whether to ignore it; either hook may
\* raise, which leaves the handler at that point.
InnerHandler(b) ==
    LET e == b.exc
        s1 == [b.s EXCEPT !.new_timestamp = b.now, !.exception = e]
        s2 == [s1 EXCEPT !.traceback = FormatError(e)]
    IN  { [s |-> s1, exc |-> Exc(cls, "format_error"),
           calls |-> b.calls \o <<"format_error">>, now |-> b.now + 1,
           ignore |-> UnsetStr] : cls \in HookExceptions }
        \cup
        { [s |-> s2, exc |-> Exc(cls, "ignore_error"),
           calls |-> b.calls \o <<"format_error", "ignore_error">>, now |-> b.now + 1,
           ignore |-> "raised"] : cls \in HookExceptions }
        \cup
        { [s |-> [s2 EXCEPT !.error_ignored = v,
                            !.tries = IF CountsAsError(v, e) THEN @ + 1 ELSE @],
           exc |-> None,
           calls |-> b.calls \o <<"format_error", "ignore_error">>, now |-> b.now + 1,
           ignore |-> v] : v \in IgnoreValues }

\* Lines 226-238, the outer handler for the exception h.exc that left the
\* inner handler: re-raised under PYCHARM_HOSTED; otherwise recorded, with
\* format_error called once more (outside any try, so its exception leaves
\* process()).
OuterHandler(h, env) ==
    IF env
    THEN { [s |-> h.s, result |-> "raised", exc |-> h.exc, calls |-> h.calls,
            now |-> h.now, ignore |-> h.ignore] }
    ELSE LET s1 == [h.s EXCEPT !.exception = h.exc] IN
         { [s |-> s1, result |-> "raised", exc |-> Exc("ValueError", "format_error"),
            calls |-> h.calls \o <<"format_error">>, now |-> h.now,
            ignore |-> h.ignore] }
         \cup
         { [s |-> [s1 EXCEPT !.traceback = FormatError(h.exc),
                             !.error_ignored = "False",
                             !.tries = IF OuterCountsAsError(h.exc) THEN @ + 1 ELSE @],
            result |-> "returned", exc |-> None,
            calls |-> h.calls \o <<"format_error">>, now |-> h.now,
            ignore |-> h.ignore] }

\* What process() leaves behind: the JobState, whether the call returned or
\* raised (and what), the calls made, the exception of the body (lines
\* 190-210), the exception that left the inner handler, and what ignore_error
\* answered.
ProcessOutcome(o, body, hook) ==
    [s |-> o.s, result |-> o.result, exc |-> o.exc, calls |-> o.calls,
     ignore |-> o.ignore, body |-> body, hook |-> hook]

\* process(): every way one call can end on JobState s with the store st, the
\* clock at t and PYCHARM_HOSTED set or not (env).
ProcessResults(s, st, t, env) ==
    IF ShortCircuit(s)
    THEN { ProcessOutcome([s |-> [s EXCEPT !.new_timestamp = t], result |-> "returned",
                           exc |-> None, calls |-> <<>>, ignore |-> UnsetStr],
                          None, None) }
    ELSE UNION {
            IF b.exc = None
            THEN { ProcessOutcome([s |-> b.s, result |-> "returned", exc |-> None,
                                   calls |-> b.calls, ignore |-> UnsetStr], None, None) }
            ELSE UNION {
                    IF h.exc = None
                    THEN { ProcessOutcome([s |-> h.s, result |-> "returned",
                                           exc |-> None, calls |-> h.calls,
                                           ignore |-> h.ignore], b.exc, None) }
                    ELSE { ProcessOutcome(o, b.exc, h.exc) : o \in OuterHandler(h, env) }
                 : h \in InnerHandler(b) }
         : b \in BodyResults(s, st, t) }

\* -------------------------------------------------------- JobState.__exit__

\* JobStateExit letting every exception through as it is.
JobStateExit_PassThrough(exc_value) == exc_value

\* Lines 123-127: the exception that leaves the with statement whose body
\* ended with exc_value (None: the body ended normally). __exit__ raises a
\* SubprocessError for a CalledProcessError and an OSError for a
\* FileNotFoundError, which replace them; it returns None, which suppresses
\* nothing, for anything else.
JobStateExit(exc_value) ==
    IF exc_value.cls = "CalledProcessError" THEN Exc("SubprocessError", "__exit__")
    ELSE IF exc_value.cls = "FileNotFoundError" THEN Exc("OSError", "__exit__")
    ELSE exc_value

\* ------------------------------------------------------------ JobState.save

\* SaveCopyOld copying the data alone.
SaveCopyOld_DataOnly(s, use_old_data) ==
    IF use_old_data THEN [s EXCEPT !.new_data = s.old_data] ELSE s

\* Lines 157-160: with use_old_data the old values replace the new ones.
SaveCopyOld(s, use_old_data) ==
    IF use_old_data
    THEN [s EXCEPT !.new_data = s.old_data,
                   !.new_etag = s.old_etag,
                   !.new_mime_type = s.old_mime_type]
    ELSE s

\* SaveSnapshot storing the formatted error as the data of a failed run.
SaveSnapshot_ErrorText(s) ==
    Snapshot(IF s.exception # None /\ s.traceback # Unset THEN s.traceback ELSE s.new_data,
             s.new_timestamp, s.tries, s.new_etag, s.new_mime_type)

\* Lines 162-168: the snapshot save() builds.
SaveSnapshot(s) ==
    Snapshot(s.new_data, s.new_timestamp, s.tries, s.new_etag, s.new_mime_type)

\* An attribute save() reads that was never assigned: AttributeError.
SaveReadsUnset(s) ==
    s.new_data = Unset \/ s.new_timestamp = UnsetTime \/ s.new_etag = UnsetStr

\* save(): the state, the store and the outcome of one call.
SaveResult(s, st, use_old_data) ==
    LET s1 == SaveCopyOld(s, use_old_data) IN
    IF SaveReadsUnset(s1)
    THEN [s |-> s1, store |-> st, result |-> "raised",
          exc |-> Exc("AttributeError", "save"), calls |-> <<>>]
    ELSE IF s1.snapshots_db = "None"
    THEN [s |-> s1, store |-> st, result |-> "raised",
          exc |-> Exc("AttributeError", "save"), calls |-> <<>>]
    ELSE [s |-> s1, store |-> StoreSave(st, get_guid(s1.job), SaveSnapshot(s1)),
          result |-> "returned", exc |-> None, calls |-> <<"save">>]

\* ---------------------------------------------------------------- actions

\* What an operation leaves in `last`: the operation and the JobState it ran
\* on, that JobState and the store before it, its argument, how it ended
\* ("returned", or "raised" with the exception that reached the caller), the
\* calls it made on its collaborators and what it returned; for process()
\* also the exception of its body, the exception that left its inner handler
\* and what ignore_error answered; for a command the exit code it returned
\* or exited with (0 for an operation that has none).
Outcome(op, id, arg, pre, prestore, result, exc, calls, ret) ==
    [op |-> op, id |-> id, arg |-> arg, pre |-> pre, prestore |-> prestore,
     result |-> result, exc |-> exc, calls |-> calls, ret |-> ret,
     ignore |-> UnsetStr, body |-> None, hook |-> None, code |-> 0]

NoStore == [g \in Guids |-> <<>>]

ReportIds == {1, 2}

\* Report.__init__ assigns no job_states: the object reads the class
\* attribute until an assignment gives it a list of its own. With the object
\* goes the record of the JobStates passed to its own setters, in call order,
\* which no code reads.
\* It also carries the time it was constructed at, which no code
\* reads either.
NewReport ==
    [own |-> FALSE, job_states |-> <<>>, passed |-> <<>>, constructed |-> Epoch + 1]

\* The class attribute Report.start, time.perf_counter() evaluated when the
\* class body runs, that is when the module is loaded: the first reading of
\* the clock. Report.__init__ assigns no start of its own.
Report_start == Epoch + 1

\* The keys of config['display'].
DisplayKeys == {"new", "error", "unchanged", "empty-diff"}

Init ==
    /\ store = NoStore
    /\ js = [i \in JobStateIds |-> NewJobState("db", IF i = 1 THEN "j1" ELSE "j2")]
    /\ now = Epoch + 1
    /\ pycharm \in BOOLEAN
    /\ saved = [g \in Guids |-> NoSnapshot]
    /\ Report_job_states = <<>>
    /\ reports = [r \in ReportIds |-> NewReport]
    /\ config = [display |-> [v \in DisplayKeys |-> TRUE], tz |-> "None"]
    /\ urlwatcher_jobs = JobList
    /\ batch = NoBatch
    /\ last = Outcome("init", 1, "-", NewJobState("db", "j1"), NoStore, "returned",
                      None, <<>>, EmptyStr)

\* JobState(snapshots_db, job): a fresh JobState takes the place of one that
\* was discarded.
Construct(i, job) ==
    /\ js[i] # NewJobState("db", job)
    /\ js' = [js EXCEPT ![i] = NewJobState("db", job)]
    /\ last' = Outcome("init", i, job, NewJobState("db", job), store, "returned", None,
                       <<>>, EmptyStr)
    /\ UNCHANGED <<store, saved, now, pycharm, reportVars>>

\* job_state.process(headless). The call reads the clock at most twice, at
\* now and at now + 1; the clock has passed both when the call is over.
Process(i) ==
    /\ now < MaxTime
    /\ \E r \in ProcessResults(js[i], store, now, pycharm) :
        /\ js' = [js EXCEPT ![i] = r.s]
        /\ now' = now + 2
        /\ last' = [Outcome("process", i, "-", js[i], store, r.result, r.exc, r.calls,
                            EmptyStr)
                    EXCEPT !.ignore = r.ignore, !.body = r.body, !.hook = r.hook]
    /\ UNCHANGED <<store, saved, pycharm, reportVars>>

\* job_state.load(), called on its own
Load(i) ==
    /\ \E r \in LoadResults(js[i], store) :
        /\ js' = [js EXCEPT ![i] = r.s]
        /\ last' = Outcome("load", i, "-", js[i], store,
                           IF r.exc = None THEN "returned" ELSE "raised", r.exc,
                           r.calls, EmptyStr)
    /\ UNCHANGED <<store, saved, now, pycharm, reportVars>>

\* job_state.save(use_old_data)
Save(i, use_old_data) ==
    /\ Len(store[get_guid(js[i].job)]) < MaxHistory
    /\ LET r == SaveResult(js[i], store, use_old_data) IN
        /\ js' = [js EXCEPT ![i] = r.s]
        /\ store' = r.store
        /\ saved' = IF r.result = "returned"
                    THEN [saved EXCEPT ![get_guid(js[i].job)] = SaveSnapshot(r.s)]
                    ELSE saved
        /\ last' = Outcome("save", i, IF use_old_data THEN "True" ELSE "False", js[i],
                           store, r.result, r.exc, r.calls, EmptyStr)
    /\ UNCHANGED <<now, pycharm, reportVars>>

\* The lifecycle of one job run at a time: the JobState in use is the first
\* one; a fresh JobState replaces it for the next run.
Running == {1}

Next ==
    \/ \E i \in Running, job \in Jobs : Construct(i, job)
    \/ \E i \in Running : Process(i)
    \/ \E i \in Running : Load(i)
    \/ \E i \in Running, use_old_data \in BOOLEAN : Save(i, use_old_data)

Spec == Init /\ [][Next]_vars

\* -------------------------------------------------------- JobState.get_diff

\* The differs an override can name ("job": no override, the job's own) and
\* the timezones a caller can pass.
Differs == {"job", "override"}

Timezones == {"None", "UTC"}

\* DifferBase.process, whose algorithms are outside this code: the diff of
\* one report kind is empty when old and new data are equal, and otherwise a
\* text that depends on the kind, the differ and the timezone.
DiffText(s, kind, differ, tz) ==
    IF s.old_data = s.new_data THEN EmptyStr ELSE <<"diff", kind, differ, tz>>

\* The kinds one differ call can return diffs for: all three, the requested
\* one alone, or only the others.
DifferKinds(kind) == {Kinds, {kind}, Kinds \ {kind}}

\* dict.update
Update(d, m) ==
    [k \in DOMAIN d \cup DOMAIN m |-> IF k \in DOMAIN m THEN m[k] ELSE d[k]]

\* Line 258, `self.generated_diff is not {}`: the identity of an object with
\* a dict the expression has just made is never the same.
IsNotNewDict(d) == TRUE

\* Line 261, `self.generated_diff is {}`.
IsNewDict(d) == FALSE

\* MemoHit that never finds a diff it has generated.
MemoHit_Never(s, report_kind) == FALSE

\* Line 258: the diff of this report kind has been generated already.
MemoHit(s, report_kind) ==
    IsNotNewDict(s.generated_diff) /\ report_kind \in DOMAIN s.generated_diff

\* NeedsDiffer running the differ for every diff that is to be generated.
NeedsDiffer_Always(s, report_kind) == TRUE

\* Line 261: the differ has to run.
NeedsDiffer(s, report_kind) ==
    IsNewDict(s.generated_diff) \/ report_kind \notin DOMAIN s.unfiltered_diff

\* DiffFilterResults with the chain applied from its last filter to its first.
DiffFilterResults_Reversed(s, diff) ==
    LET filters == JobDiffFilter(s.job)
        reversed == [k \in 1..Len(filters) |-> filters[Len(filters) + 1 - k]]
    IN  { [ret |-> ApplyFilters(reversed, diff, "text/plain")[1], exc |-> None,
           calls |-> reversed] }

\* The diff_filter chain of lines 269-272 on a diff that is not empty: each
\* filter in order, any of which may raise.
DiffFilterResults(s, diff) ==
    LET filters == JobDiffFilter(s.job) IN
    { [ret |-> EmptyStr, exc |-> Exc("ValueError", filters[k]),
       calls |-> FilterCalls(filters, k)] : k \in 1..Len(filters) }
    \cup
    { [ret |-> ApplyFilters(filters, diff, "text/plain")[1], exc |-> None,
       calls |-> FilterCalls(filters, Len(filters))] }

\* GenerateResults without the test of line 266: the diff filters are called
\* on an empty diff too.
GenerateResults_AlwaysFilters(s, report_kind, calls) ==
    IF report_kind \notin DOMAIN s.unfiltered_diff
    THEN { [s |-> s, result |-> "raised", exc |-> Exc("KeyError", "get_diff"),
            calls |-> calls, ret |-> EmptyStr] }
    ELSE { IF f.exc # None
           THEN [s |-> s, result |-> "raised", exc |-> f.exc,
                 calls |-> calls \o f.calls, ret |-> EmptyStr]
           ELSE [s |-> [s EXCEPT !.generated_diff =
                                   Update(@, [k \in {report_kind} |-> f.ret])],
                 result |-> "returned", exc |-> None,
                 calls |-> calls \o f.calls, ret |-> f.ret]
         : f \in DiffFilterResults(s, s.unfiltered_diff[report_kind]) }

\* Lines 265-275 on a JobState whose unfiltered_diff is up to date.
GenerateResults(s, report_kind, calls) ==
    IF report_kind \notin DOMAIN s.unfiltered_diff
    THEN { [s |-> s, result |-> "raised", exc |-> Exc("KeyError", "get_diff"),
            calls |-> calls, ret |-> EmptyStr] }
    ELSE LET diff == s.unfiltered_diff[report_kind] IN
         IF diff = EmptyStr
         THEN { [s |-> [s EXCEPT !.generated_diff = Update(@, [k \in {report_kind} |-> diff])],
                 result |-> "returned", exc |-> None, calls |-> calls, ret |-> diff] }
         ELSE { IF f.exc # None
                THEN [s |-> s, result |-> "raised", exc |-> f.exc,
                      calls |-> calls \o f.calls, ret |-> EmptyStr]
                ELSE [s |-> [s EXCEPT !.generated_diff =
                                        Update(@, [k \in {report_kind} |-> f.ret])],
                      result |-> "returned", exc |-> None,
                      calls |-> calls \o f.calls, ret |-> f.ret]
              : f \in DiffFilterResults(s, diff) }

\* get_diff(report_kind, differ, tz): every way one call can end.
GetDiffResults(s, report_kind, differ, tz) ==
    IF MemoHit(s, report_kind)
    THEN { [s |-> s, result |-> "returned", exc |-> None, calls |-> <<>>,
            ret |-> s.generated_diff[report_kind]] }
    ELSE IF NeedsDiffer(s, report_kind)
    THEN { [s |-> s, result |-> "raised", exc |-> Exc("ValueError", "differ"),
            calls |-> <<"differ">>, ret |-> EmptyStr] }
         \cup
         (IF s.new_data = Unset
          THEN {}
          ELSE UNION { GenerateResults(
                         [s EXCEPT !.unfiltered_diff =
                             Update(@, [k \in K |-> DiffText(s, k, differ, tz)])],
                         report_kind, <<"differ">>)
                     : K \in DifferKinds(report_kind) })
    ELSE GenerateResults(s, report_kind, <<>>)

\* ------------------------------------------------------------------ Report

\* build_job of check_test_reporter: a JobState without a store, given old
\* and new data directly, the new timestamp read from the clock.
build_job(job, old, new, t) ==
    [NewJobState("None", job) EXCEPT !.old_data = old,
                                     !.old_timestamp = Epoch,
                                     !.new_data = new,
                                     !.new_timestamp = t]

\* The job_states list a Report object reads and appends to: its own when an
\* assignment gave it one, the class attribute's otherwise.
JobStatesOf(r) == IF reports[r].own THEN reports[r].job_states ELSE Report_job_states

\* The labels a result can carry: the five verbs and, through custom(), any
\* other text.
Labels == Verbs \cup {"test"}

\* Displayed without the test for 'changed,no_report'.
Displayed_NoReportShown(verb, display) ==
    ~\E v \in {"unchanged", "new", "error"} : verb = v /\ ~display[v]

\* Displayed hiding a JobState of the three verbs when any of the three display
\* settings is off.
Displayed_AnyFlag(verb, display) ==
    /\ ~(verb \in {"unchanged", "new", "error"}
            /\ \E v \in {"unchanged", "new", "error"} : ~display[v])
    /\ verb # "changed,no_report"

\* Lines 376-382: the JobState passes the display settings of its own verb
\* and is not one that changed without a report.
Displayed(verb, display) ==
    /\ ~\E v \in {"unchanged", "new", "error"} : verb = v /\ ~display[v]
    /\ verb # "changed,no_report"

\* ChecksDiff without the test of config['display']['empty-diff'].
ChecksDiff_Always(verb, display) == verb = "changed"

\* Lines 383-386: the diff of a changed JobState has to be looked at.
ChecksDiff(verb, display) == verb = "changed" /\ ~display["empty-diff"]

\* Yield handing the JobState over after the ones that follow it in the list.
Yield_Last(id, rest) == rest \o <<id>>

\* Line 390, `yield job_state`: the JobState comes before whatever the rest of
\* the loop yields.
Yield(id, rest) == <<id>> \o rest

\* get_filtered_job_states(job_states), iterated to its end: every way it can
\* go over the JobStates jsf, with what it yields (out), the calls it makes
\* and the exception that ends it early, if any.
RECURSIVE FilterResults(_, _, _, _)
FilterResults(jsf, job_states, display, tz) ==
    IF job_states = <<>>
    THEN { [js |-> jsf, out |-> <<>>, exc |-> None, calls |-> <<>>] }
    ELSE LET id == Head(job_states)
             s == jsf[id]
         IN
         IF ~Displayed(s.verb, display)
         THEN FilterResults(jsf, Tail(job_states), display, tz)
         ELSE IF ChecksDiff(s.verb, display)
         THEN UNION {
                IF d.result = "raised"
                THEN { [js |-> [jsf EXCEPT ![id] = d.s], out |-> <<>>, exc |-> d.exc,
                        calls |-> d.calls] }
                ELSE { [js |-> rest.js,
                        out |-> IF d.ret = EmptyStr THEN rest.out ELSE Yield(id, rest.out),
                        exc |-> rest.exc,
                        calls |-> d.calls \o rest.calls]
                       : rest \in FilterResults([jsf EXCEPT ![id] = d.s],
                                                Tail(job_states), display, tz) }
              : d \in GetDiffResults(s, "text", "job", tz) }
         ELSE { [js |-> rest.js, out |-> Yield(id, rest.out), exc |-> rest.exc,
                 calls |-> rest.calls]
                : rest \in FilterResults(jsf, Tail(job_states), display, tz) }

\* ----------------------------------------------------------- report actions

\* At most this many results are recorded in one list.
MaxResults == 3

\* The sample data of check_test_reporter: a job whose content changed and a
\* job whose content did not.
InitReport ==
    /\ store = NoStore
    /\ saved = [g \in Guids |-> NoSnapshot]
    /\ now = Epoch + 2
    /\ pycharm = FALSE
    /\ js = [i \in JobStateIds |->
                IF i = 1 THEN build_job("j1", <<"Previous">>, <<"Updated">>, Epoch + 1)
                         ELSE build_job("j2", <<"Same">>, <<"Same">>, Epoch + 1)]
    /\ Report_job_states = <<>>
    /\ reports = [r \in ReportIds |-> NewReport]
    /\ config \in { [display |-> d, tz |-> z] :
                        d \in [DisplayKeys -> BOOLEAN], z \in Timezones }
    /\ urlwatcher_jobs = JobList
    /\ batch = NoBatch
    /\ last = Outcome("init", 1, "-", js[1], NoStore, "returned", None, <<>>, EmptyStr)

\* DiffMapsOf with the two dicts left to the class, one pair for all JobStates.
DiffMapsOf_ClassLevel(i) == JobStateIds

\* The JobStates whose generated_diff and unfiltered_diff are the dict objects
\* of JobState i: lines 87-88 make two new dicts for every JobState, so these
\* are its alone.
DiffMapsOf(i) == {i}

\* job_state.get_diff(report_kind, differ, tz)
GetDiff(i, report_kind, differ, tz) ==
    /\ \E r \in GetDiffResults(js[i], report_kind, differ, tz) :
        /\ js' = [j \in DOMAIN js |->
                    IF j = i THEN r.s
                    ELSE IF j \in DiffMapsOf(i)
                    THEN [js[j] EXCEPT !.generated_diff = r.s.generated_diff,
                                       !.unfiltered_diff = r.s.unfiltered_diff]
                    ELSE js[j]]
        /\ last' = Outcome("get_diff", i, <<report_kind, differ, tz>>, js[i], store,
                           r.result, r.exc, r.calls, r.ret)
    /\ UNCHANGED <<runVars, reportVars>>

\* The objects a report operation works on: the JobStates, the Report
\* objects and the list of the class attribute Report.job_states.
World == [js |-> js, reports |-> reports, job_states |-> Report_job_states]

\* Lines 318-319 of _result(verb, job_state) on Report r: the verb is stamped
\* and the JobState appended to self.job_states, which is the class
\* attribute's list unless the object was given a list of its own.
Report_result(w, r, verb, i) ==
    [js |-> [w.js EXCEPT ![i].verb = verb],
     reports |-> IF w.reports[r].own
                 THEN [w.reports EXCEPT ![r].job_states = Append(@, i),
                                        ![r].passed = Append(@, i)]
                 ELSE [w.reports EXCEPT ![r].passed = Append(@, i)],
     job_states |-> IF w.reports[r].own THEN w.job_states ELSE Append(w.job_states, i)]

\* report._result(verb, job_state), reached from new, changed,
\* changed_no_report, unchanged, error and custom
Result(r, verb, i) ==
    /\ Len(JobStatesOf(r)) < MaxResults
    /\ LET w == Report_result(World, r, verb, i) IN
        /\ js' = w.js
        /\ reports' = w.reports
        /\ Report_job_states' = w.job_states
    /\ last' = Outcome("_result", i, verb, js[i], store, "returned", None, <<>>, EmptyStr)
    /\ UNCHANGED <<runVars, config, urlwatcher_jobs, batch>>

\* report.get_filtered_job_states(report.job_states), as a reporter iterates it
GetFilteredJobStates(r) ==
    /\ JobStatesOf(r) # <<>>
    /\ \E f \in FilterResults(js, JobStatesOf(r), config.display, config.tz) :
        /\ js' = f.js
        /\ last' = Outcome("get_filtered_job_states", r, "-", js[1], store,
                           IF f.exc = None THEN "returned" ELSE "raised", f.exc,
                           f.calls, f.out)
    /\ UNCHANGED <<runVars, reportVars>>

\* The Report of the run, urlwatcher.report: the one that collects the
\* results of the jobs and is handed to the reporters.
Reporting == {1}

NextReport ==
    \/ \E r \in Reporting, verb \in Labels, i \in JobStateIds : Result(r, verb, i)
    \/ \E r \in Reporting : GetFilteredJobStates(r)

SpecReport == InitReport /\ [][NextReport]_vars

\* Results recorded through two Report objects of one process, the Report of
\* the run and another one, by any of the five setters.
InitShared ==
    /\ InitReport
    /\ config = [display |-> [v \in DisplayKeys |-> TRUE], tz |-> "None"]

NextShared ==
    \E r \in ReportIds, verb \in Verbs, i \in JobStateIds : Result(r, verb, i)

SpecShared == InitShared /\ [][NextShared]_vars

\* The diffs of one JobState, asked for in any order: of a job with diff
\* filters or without, whose content changed or did not.
InitDiff ==
    /\ store = NoStore
    /\ saved = [g \in Guids |-> NoSnapshot]
    /\ now = Epoch + 2
    /\ pycharm = FALSE
    /\ js \in { [i \in JobStateIds |->
                    IF i \in Running THEN s
                    ELSE build_job("j2", <<"Same">>, <<"Same">>, Epoch + 1)]
                : s \in { build_job("j1", <<"Previous">>, <<"Updated">>, Epoch + 1),
                          build_job("j1", <<"Same">>, <<"Same">>, Epoch + 1),
                          build_job("j2", <<"Previous">>, <<"Updated">>, Epoch + 1) } }
    /\ Report_job_states = <<>>
    /\ reports = [r \in ReportIds |-> NewReport]
    /\ config = [display |-> [v \in DisplayKeys |-> TRUE], tz |-> "None"]
    /\ urlwatcher_jobs = JobList
    /\ batch = NoBatch
    /\ last = Outcome("init", 1, "-", js[1], NoStore, "returned", None, <<>>, EmptyStr)

NextDiff ==
    \E i \in Running, k \in Kinds, d \in Differs, z \in Timezones : GetDiff(i, k, d, z)

SpecDiff == InitDiff /\ [][NextDiff]_vars

\* The diffs of two JobStates of one process, asked for in any order, of any
\* report kind and for any timezone.
NextMemo ==
    \E i \in JobStateIds, k \in Kinds, z \in Timezones : GetDiff(i, k, "job", z)

SpecMemo == InitShared /\ [][NextMemo]_vars

\* ------------------------------------------------------- the command layer

\* StoreAfterTest with the processed JobState saved, as a run does.
StoreAfterTest_Saved(st, s) == SaveResult(s, st, FALSE).store

\* Lines 432-435 and 504-505: the test commands do not save the JobState, so
\* the store is what it was.
StoreAfterTest(st, s) == st

\* test_job(job_id) for a job: a new JobState is processed inside a with
\* statement, whose body raises the exception process() recorded, if any; the
\* exception that reaches the caller of test_job is the one that leaves the
\* with statement.
TestJob(i, job) ==
    /\ now < MaxTime
    /\ \E r \in ProcessResults(NewJobState("db", job), store, now, pycharm) :
        LET raised == IF r.result = "raised" THEN r.exc ELSE r.s.exception
            exc == JobStateExit(raised)
        IN
        /\ js' = [js EXCEPT ![i] = r.s]
        /\ store' = StoreAfterTest(store, r.s)
        /\ now' = now + 2
        /\ last' = [Outcome("test_job", i, job, NewJobState("db", job), store,
                            IF exc = None THEN "returned" ELSE "raised", exc, r.calls,
                            EmptyStr)
                    EXCEPT !.ignore = r.ignore, !.body = raised, !.hook = r.hook]
    /\ UNCHANGED <<saved, pycharm, reportVars>>

\* FreshId handing out the JobState made last once more.
FreshId_Reused(w) == Cardinality(DOMAIN w.js)

\* JobState(...) makes a new object on every call: the JobStates of the
\* command layer are numbered as they are made.
FreshId(w) == Cardinality(DOMAIN w.js) + 1

\* The world with the JobState s just made, under the number id.
AddJobState(w, id, s) == [w EXCEPT !.js = (id :> s) @@ w.js]

\* set_error of check_test_reporter: the JobState is given a ValueError and
\* the text the job formats for it.
set_error(s) ==
    LET e == Exc("ValueError", "set_error")
    IN  [s EXCEPT !.exception = e, !.traceback = FormatError(e)]

\* Report(self.urlwatcher) at time t, as Report object r.
ConstructReport(w, r, t) ==
    [w EXCEPT !.reports[r] = [NewReport EXCEPT !.constructed = t]]

\* Lines 398-401 and 411-414, finish and finish_one of Report r at time end:
\* what the reporter dispatch is handed, self.job_states and the duration
\* end - self.start, self.start being the class attribute.
Finish(w, r, end) ==
    [report |-> r,
     job_states |-> IF w.reports[r].own THEN w.reports[r].job_states ELSE w.job_states,
     duration |-> end - Report_start,
     end |-> end]

\* The samples of check_test_reporter (lines 849-883) recorded in Report r,
\* each a JobState that build_job makes at time t: a new job, a changed job,
\* an unchanged job and a job with an error.
SampleResults(w, r, t) ==
    LET id1 == FreshId(w)
        w1 == Report_result(AddJobState(w, id1, build_job("j2", EmptyStr, EmptyStr, t)),
                            r, "new", id1)
        id2 == FreshId(w1)
        w2 == Report_result(AddJobState(w1, id2,
                                build_job("j2", <<"Previous">>, <<"Updated">>, t)),
                            r, "changed", id2)
        id3 == FreshId(w2)
        w3 == Report_result(AddJobState(w2, id3, build_job("j2", <<"Same">>, <<"Same">>, t)),
                            r, "unchanged", id3)
        id4 == FreshId(w3)
    IN  Report_result(AddJobState(w3, id4,
                                  set_error(build_job("j2", EmptyStr, EmptyStr, t))),
                      r, "error", id4)

\* The Report object a command makes for itself; the first one is the Report
\* of the run.
CommandReport == CHOOSE r \in ReportIds : r \notin Reporting

\* check_test_reporter() without a JobState: for a reporter that is not known
\* (lines 820-824) it returns 1; otherwise a Report is constructed, the four
\* samples are recorded in it, finish_one hands its job_states to the
\* reporter under test and it returns 0.
CheckTestReporter(known) ==
    /\ now < MaxTime
    /\ LET r == CommandReport
           w == IF known THEN SampleResults(ConstructReport(World, r, now), r, now)
                ELSE World
       IN
       /\ js' = w.js
       /\ reports' = w.reports
       /\ Report_job_states' = w.job_states
       /\ now' = now + 2
       /\ last' = [Outcome("check_test_reporter", FreshId(World), "-", js[1], store,
                           "returned", None, <<>>,
                           IF known THEN <<Finish(w, r, now + 1)>> ELSE <<>>)
                        EXCEPT !.code = IF known THEN 0 ELSE 1]
    /\ UNCHANGED <<store, saved, pycharm, config, urlwatcher_jobs, batch>>

\* check_test_reporter(job_state, label, report) at time end: for a reporter
\* that is not known (lines 820-824) it returns 1; otherwise (lines 846-847
\* and 885-887) the JobState is recorded under the label by custom(),
\* finish_one hands the Report's job_states to the reporter and it returns 0.
check_test_reporter(w, r, id, label, end, known) ==
    LET w1 == Report_result(w, r, label, id)
    IN  IF known
        THEN [w |-> w1, dispatch |-> <<Finish(w1, r, end)>>, errorlevel |-> 0]
        ELSE [w |-> w, dispatch |-> <<>>, errorlevel |-> 1]

\* TestDiffJobStates comparing every snapshot with the oldest one.
TestDiffJobStates_AgainstOldest(job, history_data, i) ==
    LET new == history_data[i]
        old == history_data[Len(history_data)]
    IN  { [NewJobState("db", job) EXCEPT !.new_data = new.data,
                                         !.new_timestamp = new.timestamp,
                                         !.new_etag = new.etag,
                                         !.old_data = old.data,
                                         !.old_timestamp = old.timestamp,
                                         !.old_etag = old.etag] }

\* Lines 467-485 of test_diff: the JobState of iteration i, which compares
\* snapshot i of the history with the one before it or, for a job with
\* compared_versions, with the closest of the compared_versions snapshots
\* before it that difflib finds, if it finds one.
TestDiffJobStates(job, history_data, i) ==
    LET new == history_data[i]
        s == [NewJobState("db", job) EXCEPT !.new_data = new.data,
                                            !.new_timestamp = new.timestamp,
                                            !.new_etag = new.etag]
        cv == JobComparedVersions(job)
        last_one == IF i + cv < Len(history_data) THEN i + cv ELSE Len(history_data)
        with_old(old) == [s EXCEPT !.old_data = old.data,
                                   !.old_timestamp = old.timestamp,
                                   !.old_etag = old.etag]
    IN  IF cv = 0 \/ cv = 1
        THEN { with_old(history_data[i + 1]) }
        ELSE { s } \cup
             { with_old(old) : old \in HistoryDict(SubSeq(history_data, i + 1, last_one)) }

\* Lines 466-502 of test_diff, from iteration i on: every way the loop can
\* go, with what it hands to the reporter in each iteration; an errorlevel
\* from check_test_reporter ends it with SystemExit, which the JobState's
\* __exit__ lets through.
RECURSIVE TestDiffLoop(_, _, _, _, _, _, _)
TestDiffLoop(w, r, job, history_data, i, end, known) ==
    IF i > Len(history_data) - 1
    THEN { [w |-> w, out |-> <<>>, exc |-> None] }
    ELSE UNION {
            LET id == FreshId(w)
                w1 == AddJobState(w, id, s)
                w2 == [w1 EXCEPT !.reports[r].own = TRUE, !.reports[r].job_states = <<>>]
                label == IF s.new_data = s.old_data THEN "No change" ELSE "Filtered diff"
                c == check_test_reporter(w2, r, id, label, end, known)
            IN  IF c.errorlevel # 0
                THEN { [w |-> c.w, out |-> <<>>,
                        exc |-> JobStateExit(Exc("SystemExit", "test_diff"))] }
                ELSE { [w |-> rest.w, out |-> c.dispatch \o rest.out, exc |-> rest.exc]
                       : rest \in TestDiffLoop(c.w, r, job, history_data, i + 1, end,
                                               known) }
         : s \in TestDiffJobStates(job, history_data, i) }

\* test_diff(job_id) for a job, the reporter under test being known or not: a
\* Report is constructed; with fewer than two snapshots of the job in the
\* store it returns 1; otherwise each snapshot is compared with its
\* predecessor in a JobState of its own, reported on its own, and it
\* returns 0, or exits with the errorlevel of check_test_reporter.
TestDiff(job, known) ==
    /\ now < MaxTime
    /\ LET r == CommandReport
           guid == get_guid(job)
           history_data == StoreHistory(store, guid, Len(store[guid]))
           w0 == ConstructReport(World, r, now)
       IN
       \E l \in (IF Len(history_data) < 2
                 THEN { [w |-> w0, out |-> <<>>, exc |-> None] }
                 ELSE TestDiffLoop(w0, r, job, history_data, 1, now + 1, known)) :
           /\ js' = l.w.js
           /\ reports' = l.w.reports
           /\ Report_job_states' = l.w.job_states
           /\ now' = now + 2
           /\ last' = [Outcome("test_diff", FreshId(World), job, js[1], store,
                               IF l.exc = None THEN "returned" ELSE "raised", l.exc,
                               <<>>, l.out)
                        EXCEPT !.code = IF Len(history_data) < 2 \/ l.exc # None
                                        THEN 1 ELSE 0]
    /\ UNCHANGED <<store, saved, pycharm, config, urlwatcher_jobs, batch>>

\* The whitespace str.strip() removes.
Whitespace == {" ", "\n"}

\* Strip that removes nothing.
Strip_Nothing(data) == data

\* str.strip(): the text without its leading and trailing whitespace.
RECURSIVE Strip(_)
Strip(data) ==
    IF data = <<>> THEN data
    ELSE IF Head(data) \in Whitespace THEN Strip(Tail(data))
    ELSE IF data[Len(data)] \in Whitespace THEN Strip(SubSeq(data, 1, Len(data) - 1))
    ELSE data

\* Lines 565-586 of list_error_jobs, the line error_jobs_lines yields for a
\* JobState that process() returned: none for a job that has data and no
\* error (the not-modified signal is no error), "No data" or "Error".
ErrorJobLine(s) ==
    IF s.exception = None \/ IsNotModified(s.exception)
    THEN IF (IF s.new_data # Unset THEN Len(Strip(s.new_data)) = 0
             ELSE Len(Strip(s.old_data)) = 0)
         THEN <<"No data", s.job>>
         ELSE <<>>
    ELSE <<"Error", s.job>>

\* How the run of one job can end in error_jobs_lines: process() raises, or
\* returns a JobState that gives a line or none.
ErrorJobRuns(job, st, t, env) ==
    { IF r.result = "raised" THEN [exc |-> r.exc, line |-> <<>>]
      ELSE [exc |-> None, line |-> ErrorJobLine(r.s)]
      : r \in ProcessResults(NewJobState("db", job), st, t, env) }

\* error_jobs_lines(jobs), lines 547-586, for the jobs from the n-th on, each
\* processed in a JobState of its own that an ExitStack has entered: the
\* lines in the order of the jobs, or the exception of the first job whose
\* process() raised, as the JobStates' __exit__ let it through.
RECURSIVE error_jobs_lines(_, _, _, _, _)
error_jobs_lines(jobs, n, st, t, env) ==
    IF n > Len(jobs)
    THEN { [exc |-> None, message |-> <<>>] }
    ELSE UNION {
            IF run.exc # None
            THEN { [exc |-> JobStateExit(run.exc), message |-> <<>>] }
            ELSE { [exc |-> rest.exc,
                    message |-> IF rest.exc = None THEN run.line \o rest.message ELSE <<>>]
                   : rest \in error_jobs_lines(jobs, n + 1, st, t, env) }
         : run \in ErrorJobRuns(jobs[n], st, t, env) }

\* The reporters --errors can name.
Reporters == {"stdout", "email"}

\* The Report of the run.
RunReport == CHOOSE r \in ReportIds : r \in Reporting

\* list_error_jobs() with --errors naming a reporter: all jobs are run; with
\* stdout the lines are printed; with another reporter and at least one line,
\* a JobState is made to carry header and lines in its traceback, recorded as
\* an error in the Report of the run and handed to that reporter.
ListErrorJobs(errors) ==
    /\ now < MaxTime
    /\ \E l \in error_jobs_lines(JobList, 1, store, now, pycharm) :
        LET id == FreshId(World)
            job_state == [NewJobState("None", "errors")
                            EXCEPT !.traceback = <<"header">> \o l.message]
            w == Report_result(AddJobState(World, id, job_state), RunReport, "error", id)
            reports_it == l.exc = None /\ errors # "stdout" /\ l.message # <<>>
        IN
        /\ js' = IF reports_it THEN w.js ELSE js
        /\ reports' = IF reports_it THEN w.reports ELSE reports
        /\ Report_job_states' = IF reports_it THEN w.job_states ELSE Report_job_states
        /\ now' = now + 2
        /\ last' = Outcome("list_error_jobs", id, errors, js[1], store,
                           IF l.exc = None THEN "returned" ELSE "raised", l.exc,
                           l.message,
                           IF reports_it THEN <<Finish(w, RunReport, now + 1)>> ELSE <<>>)
    /\ UNCHANGED <<store, saved, pycharm, config, urlwatcher_jobs, batch>>

\* What the store holds when a command starts: nothing, or the snapshots of
\* earlier runs, three of the first job and two, with the same data, of the
\* second, with or without a later one of the second.
StoredHistories ==
    { NoStore } \cup
    { [g \in Guids |->
        IF g = get_guid("j1")
        THEN << Snapshot(<<"C">>, Epoch + 1, 0, "e1", "text/html"),
                Snapshot(<<"B">>, Epoch + 1, 1, "", "text/plain"),
                Snapshot(<<"A">>, Epoch, 0, "", "text/plain") >>
        ELSE later \o << Snapshot(<<"B">>, Epoch + 1, 0, "", "text/plain"),
                         Snapshot(<<"B">>, Epoch, 0, "", "text/plain") >>]
      : later \in { <<>>, << Snapshot(<<"D">>, Epoch + 1, 0, "e2", "text/plain") >> } }

\* A command starts when the modules are loaded, or some time later.
InitCommand ==
    /\ store \in StoredHistories
    /\ js = [i \in JobStateIds |-> NewJobState("db", IF i = 1 THEN "j1" ELSE "j2")]
    /\ now \in {Epoch + 1, Epoch + 2}
    /\ pycharm \in BOOLEAN
    /\ saved = [g \in Guids |-> NoSnapshot]
    /\ Report_job_states = <<>>
    /\ reports = [r \in ReportIds |-> NewReport]
    /\ config = [display |-> [v \in DisplayKeys |-> TRUE], tz |-> "None"]
    /\ urlwatcher_jobs = JobList
    /\ batch = NoBatch
    /\ last = Outcome("init", 1, "-", NewJobState("db", "j1"), store, "returned",
                      None, <<>>, EmptyStr)

NextCommand ==
    \/ \E i \in Running, job \in Jobs : TestJob(i, job)
    \/ \E known \in BOOLEAN : CheckTestReporter(known)
    \/ \E job \in Jobs \cup {"j3"}, known \in BOOLEAN : TestDiff(job, known)
    \/ \E errors \in Reporters : ListErrorJobs(errors)
    \/ \E i \in Running : Process(i)

SpecCommand == InitCommand /\ [][NextCommand]_vars

\* A job is run and its JobState classified: the caller of process() passes
\* the JobState to the setter it chooses of the Report of the run.
NextClassify ==
    \/ \E i \in Running, job \in Jobs : Construct(i, job)
    \/ \E i \in Running : Process(i)
    \/ \E r \in Reporting, verb \in Verbs, i \in Running : Result(r, verb, i)

SpecClassify == Init /\ [][NextClassify]_vars

\* ------------------------------------------------------------- properties

Contains(seq, x) == \E k \in 1..Len(seq) : seq[k] = x

\* The JobState the last operation ran on, as it is now.
Cur == js[last.id]

\* The last operation was a process() that ran the pipeline (no early return).
Ran == last.op = "process" /\ Contains(last.calls, "load")

\* C1: when load, the retrieval, the automatic filter and every explicit
\* filter succeed, process() returns with exception None and with tries equal
\* to the tries of the old snapshot it loaded from the store.
C1_SuccessKeepsTries ==
    (Ran /\ last.body = None)
        => /\ last.result = "returned"
           /\ Cur.exception = None
           /\ Cur.old_snapshot = StoreLoad(store, get_guid(Cur.job))
           /\ Cur.tries = Cur.old_snapshot.tries

\* A successful run over a stored snapshot of a failed run (tries > 0).
C1_Witness ==
    Ran /\ last.body = None /\ Cur.new_data # Unset /\ Cur.old_snapshot.tries > 0

\* C2: when the retrieval raises an exception other than the not-modified
\* signal and ignore_error answers a falsy value, process() returns with
\* tries one more than the loaded old snapshot's and with that exception.
C2_ErrorIncrementsTries ==
    (/\ Ran
     /\ last.body.by = "retrieve"
     /\ ~IsNotModified(last.body)
     /\ last.ignore \in {"False", "''"})
        => /\ last.result = "returned"
           /\ Cur.tries = Cur.old_snapshot.tries + 1
           /\ Cur.exception = last.body

\* A second failed retrieval in a row, ignore_error answering ''.
C2_Witness ==
    /\ Ran
    /\ last.body = Exc("ValueError", "retrieve")
    /\ last.ignore = "''"
    /\ Cur.tries = 2

\* C3 as stated: when the retrieval raises the not-modified signal, tries after
\* process() is the loaded tries whatever ignore_error does, also when the
\* hook raises.
C3_NotModifiedNeverCounts ==
    (Ran /\ last.result = "returned" /\ last.body = Exc("NotModifiedError", "retrieve"))
        => Cur.tries = Cur.old_snapshot.tries

\* C3, amended: when the retrieval raises the not-modified signal and the
\* hooks return, tries is the loaded tries whatever ignore_error answers; when
\* a hook raises and process() returns, tries is the loaded tries only if the
\* hook's exception is itself the not-modified signal, and one more otherwise.
C3_NotModifiedUnlessHookFails ==
    (Ran /\ last.result = "returned" /\ last.body = Exc("NotModifiedError", "retrieve"))
        => /\ last.hook = None => /\ last.ignore \in IgnoreValues
                                   /\ Cur.tries = Cur.old_snapshot.tries
           /\ (last.hook # None /\ IsNotModified(last.hook))
                => Cur.tries = Cur.old_snapshot.tries
           /\ (last.hook # None /\ ~IsNotModified(last.hook))
                => Cur.tries = Cur.old_snapshot.tries + 1

\* A not-modified answer over a stored failed run, ignore_error answering
\* False: tries stays at the loaded value.
C3_Witness ==
    /\ Ran
    /\ last.body = Exc("NotModifiedError", "retrieve")
    /\ last.ignore = "False"
    /\ Cur.old_snapshot.tries > 0
    /\ Cur.tries = Cur.old_snapshot.tries

\* C4: without PYCHARM_HOSTED process() never lets an exception reach its
\* caller, whatever fails and whichever hook raises on whichever call; it
\* returns with exception set, and with error_ignored False when a hook failed.
C4_NeverPropagates ==
    (last.op = "process" /\ ~pycharm)
        => /\ last.result = "returned"
           /\ last.body # None => Cur.exception # None
           /\ last.hook # None => Cur.error_ignored = "False"

\* C5: a process() entered with exception already set makes no call (no load,
\* retrieval, filter or hook), returns, and changes new_timestamp alone.
C5_PreSeededShortCircuits ==
    (last.op = "process" /\ last.pre.exception # None)
        => /\ last.result = "returned"
           /\ last.calls = <<>>
           /\ Cur.new_timestamp # UnsetTime
           /\ [Cur EXCEPT !.new_timestamp = last.pre.new_timestamp] = last.pre

\* A process() on a JobState holding an exception, stamping a later time.
C5_Witness ==
    /\ last.op = "process"
    /\ last.pre.exception # None
    /\ last.pre.new_timestamp # UnsetTime
    /\ Cur.new_timestamp > last.pre.new_timestamp

\* C7: a load() by a fresh JobState, after a save() for the same GUID, yields
\* an old_snapshot equal in its five fields to the snapshot saved, and the
\* five convenience attributes hold those same values.
C7_SaveLoadRoundTrip ==
    (/\ last.op = "load"
     /\ last.result = "returned"
     /\ last.pre = NewJobState("db", Cur.job)
     /\ saved[get_guid(Cur.job)] # NoSnapshot)
        => LET snapshot == saved[get_guid(Cur.job)] IN
           /\ Cur.old_snapshot = snapshot
           /\ Cur.old_data = snapshot.data
           /\ Cur.old_timestamp = snapshot.timestamp
           /\ Cur.tries = snapshot.tries
           /\ Cur.old_etag = snapshot.etag
           /\ Cur.old_mime_type = snapshot.mime_type

\* A fresh JobState loading the saved snapshot of a failed run that kept
\* retrieved content.
C7_Witness ==
    /\ last.op = "load"
    /\ last.result = "returned"
    /\ last.pre = NewJobState("db", Cur.job)
    /\ saved[get_guid(Cur.job)].tries > 0
    /\ saved[get_guid(Cur.job)].etag = "e1"
    /\ Cur.old_snapshot = saved[get_guid(Cur.job)]

\* C8: a save() writes exactly one snapshot, under the job's GUID, built from
\* the current new_data, new_timestamp, tries, new_etag and new_mime_type; with
\* use_old_data its data, etag and mime_type are the old ones (which also
\* replace new_data, new_etag, new_mime_type) while its timestamp is
\* new_timestamp and its tries the current tries.
C8_SaveWritesOneSnapshot ==
    (last.op = "save" /\ last.result = "returned")
        => LET guid == get_guid(Cur.job)
               written == Head(store[guid])
           IN
           /\ store[guid] = <<written>> \o last.prestore[guid]
           /\ \A g \in Guids \ {guid} : store[g] = last.prestore[g]
           /\ written = Snapshot(Cur.new_data, Cur.new_timestamp, Cur.tries,
                                 Cur.new_etag, Cur.new_mime_type)
           /\ written.timestamp = last.pre.new_timestamp
           /\ written.tries = last.pre.tries
           /\ last.arg = "True"
                => /\ written.data = last.pre.old_data
                   /\ written.etag = last.pre.old_etag
                   /\ written.mime_type = last.pre.old_mime_type
           /\ last.arg = "False"
                => /\ written.data = last.pre.new_data
                   /\ written.etag = last.pre.new_etag
                   /\ written.mime_type = last.pre.new_mime_type

\* A save(use_old_data=True) that replaces retrieved content and its etag and
\* mime_type by the old ones.
C8_Witness ==
    /\ last.op = "save"
    /\ last.result = "returned"
    /\ last.arg = "True"
    /\ last.pre.new_data \notin {Unset, last.pre.old_data}
    /\ last.pre.new_etag \notin {UnsetStr, last.pre.old_etag}
    /\ last.pre.new_mime_type # last.pre.old_mime_type

C6_GetDiffMemoized ==
    last.op = "get_diff"
        => LET kind == last.arg[1] IN
           /\ kind \in DOMAIN last.pre.generated_diff
                => /\ last.result = "returned"
                   /\ last.calls = <<>>
                   /\ last.ret = last.pre.generated_diff[kind]
                   /\ Cur = last.pre
           /\ last.result = "returned"
                => /\ kind \in DOMAIN Cur.generated_diff
                   /\ Cur.generated_diff[kind] = last.ret
           /\ \A k \in DOMAIN last.pre.generated_diff :
                /\ k \in DOMAIN Cur.generated_diff
                /\ Cur.generated_diff[k] = last.pre.generated_diff[k]

\* A second call for 'text', with another differ and timezone, that returns
\* the filtered diff of the first.
C6_Witness ==
    /\ last.op = "get_diff"
    /\ last.arg = <<"text", "override", "UTC">>
    /\ "text" \in DOMAIN last.pre.generated_diff
    /\ last.ret = <<"diff", "text", "job", "None", "df1", "df2">>

\* C10: get_filtered_job_states never yields a JobState whose verb is
\* 'changed,no_report', for every display configuration and every list.
C10_NoReportNeverYielded ==
    last.op = "get_filtered_job_states"
        => \A k \in 1..Len(last.ret) : js[last.ret[k]].verb # "changed,no_report"

\* A list holding a JobState that changed without a report and another that
\* is yielded, everything being displayed.
C10_Witness ==
    /\ last.op = "get_filtered_job_states"
    /\ \A v \in DisplayKeys : config.display[v]
    /\ \E k \in 1..Len(JobStatesOf(last.id)) :
            js[JobStatesOf(last.id)[k]].verb = "changed,no_report"
    /\ Len(last.ret) > 0

\* The last operation was a get_filtered_job_states iterated to its end.
Filtered == last.op = "get_filtered_job_states" /\ last.result = "returned"

\* C11: get_filtered_job_states yields a JobState whose verb is 'unchanged',
\* 'new' or 'error' if and only if config['display'] of that verb is enabled,
\* whatever the display settings of the other two verbs are.
C11_DisplayFlagDecides ==
    Filtered
        => \A k \in 1..Len(JobStatesOf(last.id)) :
            LET id == JobStatesOf(last.id)[k] IN
            js[id].verb \in {"unchanged", "new", "error"}
                => (Contains(last.ret, id) <=> config.display[js[id].verb])

\* A 'new' JobState hidden by its own setting while 'error' and 'unchanged'
\* are displayed, and an 'error' JobState yielded while 'new' is hidden.
C11_Witness ==
    /\ Filtered
    /\ ~config.display["new"] /\ config.display["error"] /\ config.display["unchanged"]
    /\ \E k, m \in 1..Len(JobStatesOf(last.id)) :
        LET a == JobStatesOf(last.id)[k]
            b == JobStatesOf(last.id)[m]
        IN  /\ js[a].verb = "new" /\ ~Contains(last.ret, a)
            /\ js[b].verb = "error" /\ Contains(last.ret, b)

\* C12: get_filtered_job_states leaves out a JobState whose verb is 'changed'
\* if and only if config['display']['empty-diff'] is disabled and its diff is
\* the empty string, that diff being the text diff get_diff generates with the
\* Report's timezone; with empty-diff enabled every 'changed' JobState is
\* yielded.
C12_EmptyDiffDecides ==
    Filtered
        => \A k \in 1..Len(JobStatesOf(last.id)) :
            LET id == JobStatesOf(last.id)[k]
                diff == js[id].generated_diff
            IN
            js[id].verb = "changed"
                => /\ config.display["empty-diff"] => Contains(last.ret, id)
                   /\ ~config.display["empty-diff"]
                        => /\ "text" \in DOMAIN diff
                           /\ ~Contains(last.ret, id) <=> diff["text"] = EmptyStr
                           /\ diff["text"] # EmptyStr => diff["text"][4] = config.tz

\* Empty diffs hidden: a 'changed' JobState with equal old and new data is
\* left out and one with a diff, computed for the timezone UTC, is yielded.
C12_Witness ==
    /\ Filtered
    /\ ~config.display["empty-diff"]
    /\ config.tz = "UTC"
    /\ \E k, m \in 1..Len(JobStatesOf(last.id)) :
        LET a == JobStatesOf(last.id)[k]
            b == JobStatesOf(last.id)[m]
        IN  /\ js[a].verb = "changed" /\ ~Contains(last.ret, a)
            /\ js[b].verb = "changed" /\ Contains(last.ret, b)
            /\ js[b].generated_diff["text"][4] = "UTC"

\* a is b with some of its elements left out.
RECURSIVE IsSubsequence(_, _)
IsSubsequence(a, b) ==
    IF a = <<>> THEN TRUE
    ELSE IF b = <<>> THEN FALSE
    ELSE IF Head(a) = Head(b) THEN IsSubsequence(Tail(a), Tail(b))
    ELSE IsSubsequence(a, Tail(b))

\* C13: what get_filtered_job_states yields is a subsequence of the list it
\* is given, in the list's order; and a call repeated on the same list with
\* the same configuration runs to its end and yields the same sequence.
C13_OrderedSubsequence ==
    last.op = "get_filtered_job_states"
        => /\ IsSubsequence(last.ret, JobStatesOf(last.id))
           /\ last.result = "returned"
                => \A f \in FilterResults(js, JobStatesOf(last.id), config.display,
                                          config.tz) :
                        f.exc = None /\ f.out = last.ret

\* A list of three results of which the first is left out, after its diff
\* was computed and found empty, and the two that follow it are yielded.
C13_Witness ==
    /\ Filtered
    /\ Len(JobStatesOf(last.id)) = 3
    /\ last.ret = SubSeq(JobStatesOf(last.id), 2, 3)
    /\ last.calls # <<>>

\* C14: after any sequence of result-setter calls on the Report objects of one
\* process, the job_states of each Report is exactly the sequence of JobStates
\* passed to its own setters, in call order, the JobState of the last call
\* carrying the verb of its setter; a result recorded through one Report is
\* not in the job_states of another.
C14_OwnResultsOnly ==
    /\ \A r \in ReportIds : JobStatesOf(r) = reports[r].passed
    /\ last.op = "_result" => js[last.id].verb = last.arg

\* C15: the diff memoization is per JobState: a get_diff on one JobState
\* leaves generated_diff and unfiltered_diff of every other JobState as they
\* were, and what it returns is a diff of its own job's data through its own
\* job's diff filters, never one computed for another job.
C15_MemoPerJobState ==
    /\ [][last'.op = "get_diff"
            => \A j \in JobStateIds \ {last'.id} :
                /\ js'[j].generated_diff = js[j].generated_diff
                /\ js'[j].unfiltered_diff = js[j].unfiltered_diff]_vars
    /\ [](last.op = "get_diff" /\ last.result = "returned"
            => \E d \in Differs, z \in Timezones :
                LET diff == DiffText(Cur, last.arg[1], d, z) IN
                last.ret = IF diff = EmptyStr THEN diff
                           ELSE ApplyFilters(JobDiffFilter(Cur.job), diff, "text/plain")[1])

\* The text diff of the second JobState is computed, and is empty, while the
\* first JobState holds the text diff generated for its own job.
C15_Witness ==
    /\ last.op = "get_diff"
    /\ last.id = 2
    /\ last.result = "returned"
    /\ last.calls # <<>>
    /\ last.ret = EmptyStr
    /\ "text" \in DOMAIN js[1].generated_diff
    /\ js[1].generated_diff["text"] # EmptyStr

\* C16: when the body of a JobState's with statement ends with an exception,
\* a CalledProcessError is replaced by a SubprocessError and a
\* FileNotFoundError by an OSError, so that neither of the two reaches the
\* caller of the scope; any other exception reaches it as it is.
C16_ExitTranslates ==
    last.op = "test_job"
        => /\ last.body.cls = "CalledProcessError" => last.exc.cls = "SubprocessError"
           /\ last.body.cls = "FileNotFoundError" => last.exc.cls = "OSError"
           /\ last.exc.cls \notin {"CalledProcessError", "FileNotFoundError"}
           /\ last.body.cls \notin {"CalledProcessError", "FileNotFoundError"}
                => last.exc = last.body

\* A command job whose command is not found, the error not ignored: test_job
\* raises the JobState's FileNotFoundError and its caller receives an OSError.
C16_Witness ==
    /\ last.op = "test_job"
    /\ Cur.exception = Exc("FileNotFoundError", "retrieve")
    /\ last.ignore = "False"
    /\ last.exc = Exc("OSError", "__exit__")

\* The operations of the command layer that use a Report.
CommandOps == {"check_test_reporter", "test_diff", "list_error_jobs"}

\* The JobStates that were passed to a setter of Report r.
Passed(r) == { js[reports[r].passed[k]] : k \in 1..Len(reports[r].passed) }

\* C17 as stated: every JobState that process() returns or that is handed to a
\* Report, built by the command layer or not, has its traceback set if and
\* only if its exception is not None.
C17_TracebackIffException ==
    /\ (last.op = "process" /\ last.result = "returned")
            => (Cur.traceback # Unset <=> Cur.exception # None)
    /\ \A r \in ReportIds : \A s \in Passed(r) :
            s.traceback # Unset <=> s.exception # None

\* C18 as stated: every JobState passed to a setter of a Report while its
\* exception is not None carries the verb 'error'.
C18_ExceptionMeansError ==
    /\ (last.op = "_result" /\ last.pre.exception # None) => Cur.verb = "error"
    /\ last.op \in CommandOps
            => \A r \in ReportIds : \A s \in Passed(r) :
                    s.exception # None => s.verb = "error"

NoDuplicates(seq) == \A a, b \in 1..Len(seq) : a # b => seq[a] # seq[b]

\* C19: in test_diff, check_test_reporter and list_error_jobs every JobState
\* is passed to one setter of one Report, once: no JobState is in the record
\* of two Reports or twice in that of one, none is twice in the job_states
\* handed to the reporter, and a verb once set is never changed.
C19_OneResultPerJobState ==
    /\ [](/\ \A r \in ReportIds : NoDuplicates(reports[r].passed)
          /\ \A r1, r2 \in ReportIds :
                r1 # r2 => \A k \in 1..Len(reports[r1].passed) :
                                ~Contains(reports[r2].passed, reports[r1].passed[k])
          /\ last.op \in CommandOps
                => \A k \in 1..Len(last.ret) : NoDuplicates(last.ret[k].job_states))
    /\ [][\A id \in DOMAIN js :
            js[id].verb # UnsetStr => js'[id].verb = js[id].verb]_vars

\* A test_diff over three snapshots: two JobStates, each handed to the
\* reporter alone and under its own label.
C19_Witness ==
    /\ last.op = "test_diff"
    /\ Len(last.ret) = 2
    /\ Len(last.ret[1].job_states) = 1
    /\ Len(last.ret[2].job_states) = 1
    /\ last.ret[1].job_states # last.ret[2].job_states
    /\ js[last.ret[1].job_states[1]].verb = "Filtered diff"
    /\ js[last.ret[2].job_states[1]].verb = "Filtered diff"

\* C20 as stated: the duration finish and finish_one hand to the reporter is
\* the time between the construction of that Report and the call.
C20_DurationSinceConstruction ==
    last.op \in CommandOps
        => \A k \in 1..Len(last.ret) :
            last.ret[k].duration = last.ret[k].end - reports[last.ret[k].report].constructed

\* ------------------------------------------- error_jobs_lines, thread by thread

\* The none of max_workers.
NoLimit == 0

Min(a, b) == IF a < b THEN a ELSE b

\* Line 556 with the worker limit left out for every list of jobs.
MaxWorkers_Unlimited(cpu_count, browser, jobs) == NoLimit

\* Line 556: max_workers, as computed from os.cpu_count() and the jobs.
MaxWorkers(cpu_count, browser, jobs) ==
    IF \E k \in 1..Len(jobs) : jobs[k] \in browser
    THEN Min(32, IF cpu_count = 0 THEN 1 ELSE cpu_count)
    ELSE NoLimit

\* ThreadPoolExecutor(max_workers): the number of threads the pool may start,
\* which without max_workers is min(32, (os.cpu_count() or 1) + 4).
PoolLimit(max_workers, cpu_count) ==
    IF max_workers = NoLimit
    THEN Min(32, (IF cpu_count = 0 THEN 1 ELSE cpu_count) + 4)
    ELSE max_workers

\* The tasks of the run, one per job, in the order of the jobs.
Tasks(b) == 1..Len(b.jobs)

RunningTasks(b) == { k \in Tasks(b) : b.status[k] = "running" }

\* The results of the tasks taken as they complete, the latest submitted
\* first, instead of in the order of submission.
NextResult_AsCompleted(b) ==
    LET ready == { k \in Tasks(b) : b.status[k] = "done" /\ ~Contains(b.collected, k) }
    IN  IF ready # {} THEN CHOOSE k \in ready : \A j \in ready : j <= k
        ELSE Len(b.collected) + 1

\* executor.map(...), lines 560-563: the iterator gives the results of the
\* tasks in the order they were submitted, the order of the jobs.
NextResult(b) == Len(b.collected) + 1

\* A result is taken as soon as the task is submitted.
Collectable_Submitted(b, k) == b.status[k] \in {"queued", "running", "done"}

\* The iterator of executor.map waits for the result of the task: the main
\* thread gets the JobState when the worker's process() has returned.
Collectable(b, k) == b.status[k] = "done"

\* The report is made as soon as some result is in.
ReadyToReport_Early(b) == b.pc \in {"collect", "joined"} /\ b.collected # <<>>

\* Lines 627 and 634: the lines are printed or joined when error_jobs_lines
\* is exhausted, that is after the result of the last task was taken.
ReadyToReport(b) == b.pc = "joined"

\* Lines 555-558 of list_error_jobs for --errors naming a reporter, on a
\* machine with the given CPU count: the jobs are selected (line 622) and the
\* executor is created.
CreateExecutor(cpu_count, browser, errors) ==
    /\ batch.pc = "idle"
    /\ batch' = [pc |-> "map",
                 cpu_count |-> cpu_count,
                 browser |-> browser,
                 errors |-> errors,
                 jobs |-> urlwatcher_jobs,
                 max_workers |-> MaxWorkers(cpu_count, browser, urlwatcher_jobs),
                 status |-> [k \in 1..Len(urlwatcher_jobs) |-> "new"],
                 worker |-> [k \in 1..Len(urlwatcher_jobs) |-> {}],
                 outcome |-> [k \in 1..Len(urlwatcher_jobs) |->
                                [exc |-> None, line |-> <<>>]],
                 read_when |-> [k \in 1..Len(urlwatcher_jobs) |-> "-"],
                 exits |-> [k \in 1..Len(urlwatcher_jobs) |-> 0],
                 exit_when |-> [k \in 1..Len(urlwatcher_jobs) |-> "-"],
                 collected |-> <<>>,
                 lines |-> <<>>,
                 exc |-> None]
    /\ UNCHANGED <<store, js, now, pycharm, last, saved, Report_job_states, reports,
                   config, urlwatcher_jobs>>

\* executor.map consuming its second argument (line 562) in the main thread:
\* the JobState of the next job is constructed, entered and submitted; when
\* all are submitted map returns its iterator.
Submit ==
    /\ batch.pc = "map"
    /\ LET new == { k \in Tasks(batch) : batch.status[k] = "new" }
       IN  IF new = {}
           THEN batch' = [batch EXCEPT !.pc = "collect"]
           ELSE LET k == CHOOSE k \in new : \A j \in new : k <= j
                IN  batch' = [batch EXCEPT !.status[k] = "queued"]
    /\ UNCHANGED <<store, js, now, pycharm, last, saved, Report_job_states, reports,
                   config, urlwatcher_jobs>>

\* A thread of the pool takes the oldest task of the queue and calls
\* jobstate.process() (line 561); the pool has a thread for it if fewer than
\* its limit are busy.
WorkerStart(t) ==
    /\ batch.pc \in {"map", "collect", "raised", "joined", "finished"}
    /\ LET queued == { k \in Tasks(batch) : batch.status[k] = "queued" }
           busy == UNION { batch.worker[k] : k \in RunningTasks(batch) }
           idle == (1..PoolLimit(batch.max_workers, batch.cpu_count)) \ busy
       IN  /\ queued # {}
           /\ idle # {}
           /\ t = CHOOSE w \in idle : \A v \in idle : w <= v
           /\ LET k == CHOOSE k \in queued : \A j \in queued : k <= j
              IN  batch' = [batch EXCEPT !.status[k] = "running",
                                         !.worker[k] = @ \cup {t}]
    /\ UNCHANGED <<store, js, now, pycharm, last, saved, Report_job_states, reports,
                   config, urlwatcher_jobs>>

\* process() of a task returns or raises in its worker, which sets the
\* result or the exception of the task's future.
WorkerFinish(k) ==
    /\ batch.pc # "idle"
    /\ k \in RunningTasks(batch)
    /\ \E run \in ErrorJobRuns(batch.jobs[k], store, now, pycharm) :
        batch' = [batch EXCEPT !.status[k] = "done", !.outcome[k] = run]
    /\ UNCHANGED <<store, js, now, pycharm, last, saved, Report_job_states, reports,
                   config, urlwatcher_jobs>>

\* One iteration of the loop of lines 560-588 in the main thread: the next
\* result is taken from the iterator and the fields of the JobState are read
\* for its line, if any; an exception of process() is raised instead and the
\* tasks not yet started are cancelled. When the iterator is exhausted or the
\* exception leaves the loop, the with statement of line 555 ends and the
\* ExitStack calls __exit__ of every JobState it entered, whatever its task
\* is doing (exit_when); the executor is not shut down and its threads are
\* not waited for.
Collect ==
    /\ batch.pc = "collect"
    /\ IF Len(batch.collected) = Len(batch.jobs)
       THEN batch' = [batch EXCEPT !.pc = "joined",
                                   !.exits = [j \in Tasks(batch) |-> @[j] + 1],
                                   !.exit_when = batch.status]
       ELSE LET k == NextResult(batch)
                run == batch.outcome[k]
                cancelled == [j \in Tasks(batch) |->
                                IF batch.status[j] = "queued"
                                THEN "cancelled" ELSE batch.status[j]]
            IN  /\ Collectable(batch, k)
                /\ batch' =
                     IF run.exc # None
                     THEN [batch EXCEPT
                             !.pc = "raised",
                             !.exc = JobStateExit(run.exc),
                             !.collected = Append(@, k),
                             !.status = cancelled,
                             !.exits = [j \in Tasks(batch) |-> @[j] + 1],
                             !.exit_when = cancelled]
                     ELSE [batch EXCEPT
                             !.collected = Append(@, k),
                             !.read_when[k] = batch.status[k],
                             !.lines = IF run.line = <<>> THEN @
                                       ELSE Append(@, [task |-> k, line |-> run.line])]
    /\ UNCHANGED <<store, js, now, pycharm, last, saved, Report_job_states, reports,
                   config, urlwatcher_jobs>>

RECURSIVE Message(_)
Message(lines) ==
    IF lines = <<>> THEN <<>> ELSE Head(lines).line \o Message(Tail(lines))

\* Lines 625-658 in the main thread, once the lines are there: with stdout
\* they are printed; with another reporter and at least one line, a JobState
\* carries them in its traceback, is recorded as an error in the Report of
\* the run and handed to that reporter.
ReportErrorJobs ==
    /\ ReadyToReport(batch)
    /\ now < MaxTime
    /\ LET message == Message(batch.lines)
           id == FreshId(World)
           job_state == [NewJobState("None", "errors")
                           EXCEPT !.traceback = <<"header">> \o message]
           w == Report_result(AddJobState(World, id, job_state), RunReport, "error", id)
           reports_it == batch.errors # "stdout" /\ message # <<>>
       IN
       /\ js' = IF reports_it THEN w.js ELSE js
       /\ reports' = IF reports_it THEN w.reports ELSE reports
       /\ Report_job_states' = IF reports_it THEN w.job_states ELSE Report_job_states
       /\ now' = now + 2
       /\ last' = Outcome("list_error_jobs", id, batch.errors, js[1], store,
                          "returned", None, message,
                          IF reports_it THEN <<Finish(w, RunReport, now + 1)>> ELSE <<>>)
    /\ batch' = [batch EXCEPT !.pc = "finished"]
    /\ UNCHANGED <<store, saved, pycharm, config, urlwatcher_jobs>>

\* A run starts on a jobs file of three or of two jobs.
InitBatch ==
    /\ store \in StoredHistories
    /\ js = [i \in JobStateIds |-> NewJobState("db", IF i = 1 THEN "j1" ELSE "j2")]
    /\ now = Epoch + 1
    /\ pycharm = FALSE
    /\ saved = [g \in Guids |-> NoSnapshot]
    /\ Report_job_states = <<>>
    /\ reports = [r \in ReportIds |-> NewReport]
    /\ config = [display |-> [v \in DisplayKeys |-> TRUE], tz |-> "None"]
    /\ urlwatcher_jobs \in { <<"j1", "j2", "j1">>, <<"j2", "j1">> }
    /\ batch = NoBatch
    /\ last = Outcome("init", 1, "-", NewJobState("db", "j1"), store, "returned",
                      None, <<>>, EmptyStr)

\* os.cpu_count() returns None (0 here) or the number of CPUs; no job is a
\* BrowserJob, or the second job of the file is.
NextBatch ==
    \/ \E cpu_count \in {0, 1, 2, 40}, browser \in { {}, {"j2"} }, errors \in Reporters :
            CreateExecutor(cpu_count, browser, errors)
    \/ Submit
    \/ \E t \in 1..3 : WorkerStart(t)
    \/ \E k \in 1..3 : WorkerFinish(k)
    \/ Collect
    \/ ReportErrorJobs

SpecBatch == InitBatch /\ [][NextBatch]_vars

\* ------------------------------------------------------------ C21 .. C24

\* C21: in a run of error_jobs_lines over jobs of which one is a browser job,
\* the worker limit is min(32, CPU count), 1 when the CPU count is unknown,
\* and never more JobStates than that are in process() at the same time;
\* without a browser job no worker limit is passed.
C21_BrowserJobsBoundWorkers ==
    batch.pc # "idle" =>
        IF \E k \in Tasks(batch) : batch.jobs[k] \in batch.browser
        THEN LET limit == IF batch.cpu_count = 0 THEN 1
                          ELSE IF batch.cpu_count > 32 THEN 32 ELSE batch.cpu_count
             IN  /\ batch.max_workers = limit
                 /\ Cardinality(RunningTasks(batch)) <= limit
        ELSE batch.max_workers = NoLimit

\* Three jobs, one of them a browser job, on a machine of unknown CPU count:
\* one process() is running while the two others wait for the only worker.
C21_Witness ==
    /\ batch.pc # "idle"
    /\ batch.cpu_count = 0
    /\ batch.browser # {}
    /\ Len(batch.jobs) = 3
    /\ batch.status = <<"done", "running", "queued">>

\* Without a browser job the three jobs are in process() at the same time.
C21_WitnessNoBrowser ==
    /\ batch.pc # "idle"
    /\ batch.browser = {}
    /\ batch.max_workers = NoLimit
    /\ Cardinality(RunningTasks(batch)) = 3

\* C22: the lines of error_jobs_lines come in the order of the jobs, however
\* the workers interleave.
C22_LinesInJobOrder ==
    batch.pc # "idle" =>
        /\ \A a, b \in 1..Len(batch.lines) :
                a < b => batch.lines[a].task < batch.lines[b].task
        /\ \A a \in 1..Len(batch.collected) : batch.collected[a] = a

\* The third job was finished before the first one, and the lines of the
\* first and of the third are there, in this order.
C22_Witness ==
    /\ batch.pc = "joined"
    /\ Len(batch.lines) >= 2
    /\ batch.lines[1].task = 1
    /\ batch.lines[Len(batch.lines)].task = 3

\* C23: Report.job_states is appended to only by the main thread, after
\* every worker's process() has returned and its result was taken; no step
\* of a worker changes a Report.
C23_ReportAfterAllWorkers ==
    [][/\ (Report_job_states' # Report_job_states \/ reports' # reports)
            => /\ batch.pc = "joined"
               /\ batch'.pc = "finished"
               /\ \A k \in Tasks(batch) :
                    batch.status[k] = "done" /\ Contains(batch.collected, k)
       /\ (/\ batch.pc # "idle"
           /\ \E k \in Tasks(batch) : /\ batch'.status[k] # batch.status[k]
                                      /\ batch.status[k] \in {"queued", "running"})
            => Report_job_states' = Report_job_states /\ reports' = reports]_vars

\* The lines of a run went to the email reporter in a JobState recorded as an
\* error.
C23_Witness ==
    /\ batch.pc = "finished"
    /\ batch.errors = "email"
    /\ Len(Report_job_states) = 1
    /\ js[Report_job_states[1]].verb = "error"
    /\ Len(last.ret) = 1

\* C24: no JobState is accessed by two threads at the same time: process()
\* of a JobState runs in exactly one worker and the main thread reads its
\* fields only after that process() has returned.
C24_OneThreadPerJobState ==
    batch.pc # "idle" =>
        \A k \in Tasks(batch) :
            /\ Cardinality(batch.worker[k]) <= 1
            /\ batch.status[k] \in {"running", "done"} <=> Cardinality(batch.worker[k]) = 1
            /\ batch.read_when[k] \in {"-", "done"}
            /\ Contains(batch.collected, k) => batch.status[k] = "done"

\* The main thread has read the first JobState while the second is still in
\* process() in another worker.
C24_Witness ==
    /\ batch.pc = "collect"
    /\ batch.read_when[1] = "done"
    /\ batch.status[2] = "running"
    /\ batch.worker[1] # batch.worker[2]

\* ------------------------------------------------- load() over a long history

\* Five snapshots of earlier runs, most recent first: all of different data,
\* or the two most recent of the same data.
SampleHistories ==
    { << Snapshot(<<"E">>, Epoch + 1, 0, "e1", "text/html"),
         Snapshot(<<"D">>, Epoch + 1, 1, "", "text/plain"),
         Snapshot(<<"C">>, Epoch, 2, "", "text/plain"),
         Snapshot(<<"B">>, Epoch, 1, "", "text/plain"),
         Snapshot(<<"A">>, Epoch, 0, "", "text/plain") >>,
      << Snapshot(<<"D">>, Epoch + 1, 0, "e1", "text/html"),
         Snapshot(<<"D">>, Epoch + 1, 1, "", "text/plain"),
         Snapshot(<<"C">>, Epoch, 2, "", "text/plain"),
         Snapshot(<<"B">>, Epoch, 1, "", "text/plain"),
         Snapshot(<<"A">>, Epoch, 0, "", "text/plain") >> }

\* The store holds some of the most recent snapshots of a history, for both
\* GUIDs.
InitLoad ==
    /\ \E h \in SampleHistories : \E n \in 0..Len(h) :
            store = [g \in Guids |-> SubSeq(h, 1, n)]
    /\ js = [i \in JobStateIds |-> NewJobState("db", IF i = 1 THEN "j1" ELSE "j2")]
    /\ now = Epoch + 1
    /\ pycharm = FALSE
    /\ saved = [g \in Guids |-> NoSnapshot]
    /\ Report_job_states = <<>>
    /\ reports = [r \in ReportIds |-> NewReport]
    /\ config = [display |-> [v \in DisplayKeys |-> TRUE], tz |-> "None"]
    /\ urlwatcher_jobs = JobList
    /\ batch = NoBatch
    /\ last = Outcome("init", 1, "-", NewJobState("db", "j1"), store, "returned",
                      None, <<>>, EmptyStr)

\* load() is called for the two jobs and for the second one with
\* compared_versions: 1.
NextLoad ==
    \/ \E i \in Running, job \in Jobs \cup {"j3"} : Construct(i, job)
    \/ \E i \in Running : Load(i)

SpecLoad == InitLoad /\ [][NextLoad]_vars

\* ------------------------------------------------ finding a job by its id

\* The job ids of the command line go from -MaxJobId to MaxJobId.
MaxJobId == 8

\* No job: Python's None.
NoJob == "None"

\* job.get_location(): the URL or the command of the job.
get_location(job) == <<"location", job>>

\* A job id as the command line gives it: an index, or a location.
Index(n) == [kind |-> "int", val |-> n]

Location(job) == [kind |-> "str", val |-> get_location(job)]

\* self.urlwatcher.jobs[index] of Python, index counted from 0 and a negative
\* index from the end: the job, or IndexError.
PyIndex(jobs, index) ==
    IF 0 <= index /\ index < Len(jobs) THEN [exc |-> None, job |-> jobs[index + 1]]
    ELSE IF index < 0 /\ 0 - Len(jobs) <= index
         THEN [exc |-> None, job |-> jobs[Len(jobs) + index + 1]]
         ELSE [exc |-> Exc("IndexError", "_find_job"), job |-> NoJob]

\* _find_job(query), lines 344-357.
_find_job(jobs, query) ==
    IF query.kind = "int"
    THEN LET index == query.val IN
         IF index = 0 THEN NoJob
         ELSE LET r == IF index <= 0 THEN PyIndex(jobs, index)
                       ELSE PyIndex(jobs, index - 1)
              IN  IF r.exc # None THEN NoJob ELSE r.job
    ELSE LET found == { k \in 1..Len(jobs) : get_location(jobs[k]) = query.val }
         IN  IF found = {} THEN NoJob
             ELSE jobs[CHOOSE k \in found : \A j \in found : k <= j]

\* _get_job(job_id), lines 359-377: the job, or SystemExit(1).
_get_job(jobs, job_id) ==
    LET query == IF job_id.kind = "int" /\ job_id.val < 0
                 THEN Index(Len(jobs) + job_id.val + 1)
                 ELSE job_id
        job == _find_job(jobs, query)
    IN  IF job = NoJob
        THEN [exc |-> Exc("SystemExit(1)", "_get_job"), job |-> NoJob]
        ELSE [exc |-> None, job |-> job]

\* The job ids given: indexes, and the locations of the jobs.
JobIds == { Index(n) : n \in (0 - MaxJobId)..MaxJobId } \cup { Location(job) : job \in Jobs }

\* self._get_job(job_id), called on its own.
GetJob(job_id) ==
    /\ LET r == _get_job(urlwatcher_jobs, job_id) IN
        last' = Outcome("_get_job", 1, job_id, js[1], store,
                        IF r.exc = None THEN "returned" ELSE "raised", r.exc,
                        <<>>, r.job)
    /\ UNCHANGED <<store, js, now, pycharm, saved, Report_job_states, reports, config,
                   urlwatcher_jobs, batch>>

\* ------------------------------------------------------ deleting a snapshot

\* Lines 664-669 with the two return values exchanged.
DeleteSnapshotReturn_Swapped(deleted) == IF deleted THEN 1 ELSE 0

\* Lines 664-669 of delete_snapshot: what the command returns.
DeleteSnapshotReturn(deleted) == IF deleted THEN 0 ELSE 1

\* delete_snapshot(job_id), lines 660-669.
DeleteSnapshot(job_id) ==
    /\ LET found == _get_job(urlwatcher_jobs, job_id)
           r == StoreDeleteLatest(store, get_guid(found.job))
       IN  IF found.exc # None
           THEN /\ store' = store
                /\ last' = Outcome("delete_snapshot", 1, job_id, js[1], store, "raised",
                                   found.exc, <<>>, found.job)
           ELSE /\ store' = r.store
                /\ last' = Outcome("delete_snapshot", 1, job_id, js[1], store, "returned",
                                   None, <<"delete_latest">>,
                                   DeleteSnapshotReturn(r.deleted))
    /\ UNCHANGED <<js, now, pycharm, saved, Report_job_states, reports, config,
                   urlwatcher_jobs, batch>>

\* job_state.delete_latest(temporary), handler.py lines 172-174: the store's
\* result is dropped.
DeleteLatest(i, temporary) ==
    /\ IF js[i].snapshots_db = "None"
       THEN /\ store' = store
            /\ last' = Outcome("delete_latest", i, temporary, js[i], store, "raised",
                               Exc("AttributeError", "delete_latest"), <<>>, EmptyStr)
       ELSE /\ store' = StoreDeleteLatest(store, get_guid(js[i].job)).store
            /\ last' = Outcome("delete_latest", i, temporary, js[i], store, "returned",
                               None, <<"delete_latest">>, EmptyStr)
    /\ UNCHANGED <<js, now, pycharm, saved, Report_job_states, reports, config,
                   urlwatcher_jobs, batch>>

\* SelectJobs taking the jobs in the order of the joblist, one for each entry.
SelectJobs_InListOrder(jobs, joblist) ==
    IF \E k \in 1..Len(joblist) :
            ~(\/ (0 - Len(jobs) <= joblist[k] /\ joblist[k] <= 0 - 1)
              \/ (1 <= joblist[k] /\ joblist[k] <= Len(jobs)))
    THEN [exc |-> Exc("IndexError", "list_error_jobs"), selected |-> <<>>]
    ELSE [exc |-> None,
          selected |-> [k \in 1..Len(joblist) |->
                            IF joblist[k] > 0 THEN joblist[k]
                            ELSE Len(jobs) + joblist[k] + 1]]

\* Lines 599-623 of list_error_jobs: the index numbers (positions in the jobs
\* file, from 1) of the jobs to run for the joblist of the command line, or
\* IndexError.
SelectJobs(jobs, joblist) ==
    IF joblist # <<>>
    THEN IF \E k \in 1..Len(joblist) :
                ~(\/ (0 - Len(jobs) <= joblist[k] /\ joblist[k] <= 0 - 1)
                  \/ (1 <= joblist[k] /\ joblist[k] <= Len(jobs)))
         THEN [exc |-> Exc("IndexError", "list_error_jobs"), selected |-> <<>>]
         ELSE LET mapped == [k \in 1..Len(joblist) |->
                                IF joblist[k] > 0 THEN joblist[k]
                                ELSE Len(jobs) + joblist[k] + 1]
                  RECURSIVE Keep(_)
                  Keep(i) == IF i > Len(jobs) THEN <<>>
                             ELSE (IF \E k \in 1..Len(mapped) : mapped[k] = i
                                   THEN <<i>> ELSE <<>>) \o Keep(i + 1)
              IN  [exc |-> None, selected |-> Keep(1)]
    ELSE [exc |-> None, selected |-> [i \in 1..Len(jobs) |-> i]]

\* The selection of list_error_jobs for a joblist, on its own.
SelectErrorJobs(joblist) ==
    /\ LET r == SelectJobs(urlwatcher_jobs, joblist) IN
        last' = Outcome("select_jobs", 1, joblist, js[1], store,
                        IF r.exc = None THEN "returned" ELSE "raised", r.exc,
                        <<>>, r.selected)
    /\ UNCHANGED <<store, js, now, pycharm, saved, Report_job_states, reports, config,
                   urlwatcher_jobs, batch>>

\* ------------------------------------------------ changing a job's location

\* SsdbStorage.get_guids: the GUIDs the store has snapshots of.
StoreGuids(st) == { g \in DOMAIN st : st[g] # <<>> }

\* SsdbStorage.move: the snapshots of the GUID are relocated to the new GUID,
\* before those it already has; the result is their number.
StoreMove(st, guid, new_guid) ==
    IF guid = new_guid THEN [store |-> st, moved |-> 0]
    ELSE [store |-> [st EXCEPT ![new_guid] = st[guid] \o @, ![guid] = <<>>],
          moved |-> Len(st[guid])]

\* job.set_base_location(location): the job has the new location, and with
\* it the GUID of that location.
set_base_location(job, location) == CHOOSE j \in Jobs : get_location(j) = location

\* _find_job(query), lines 344-357, as the position in urlwatcher.jobs of the
\* job object it returns, 0 for None.
FoundAt(jobs, query) ==
    IF query.kind = "int"
    THEN LET index == query.val IN
         IF index = 0 THEN 0
         ELSE IF index < 0
              THEN (IF 0 - Len(jobs) <= index THEN Len(jobs) + index + 1 ELSE 0)
              ELSE (IF index <= Len(jobs) THEN index ELSE 0)
    ELSE LET found == { k \in 1..Len(jobs) : get_location(jobs[k]) = query.val }
         IN  IF found = {} THEN 0 ELSE CHOOSE k \in found : \A j \in found : k <= j

\* What the store can do in a call of modify_urls: answer, or fail in
\* get_guids or in move.
StoreFailures == {"none", "get_guids", "move"}

\* ChangeLocation setting the new location before it looks for snapshots of
\* the old GUID.
ChangeLocation_SetsFirst(jobs, st, query, new_loc, answer, io) ==
    LET at == FoundAt(jobs, query)
        job == jobs[at]
        old_guid == get_guid(job)
        moved_job == set_base_location(job, new_loc)
        moved_jobs == [jobs EXCEPT ![at] = moved_job]
        m == StoreMove(st, old_guid, get_guid(moved_job))
    IN  IF (\E k \in 1..Len(jobs) : get_location(jobs[k]) = new_loc) \/ at = 0
        THEN [code |-> 1, exc |-> None, jobs |-> jobs, store |-> st, calls |-> <<>>]
        ELSE IF old_guid \notin StoreGuids(st)
        THEN [code |-> 1, exc |-> None, jobs |-> moved_jobs, store |-> st,
              calls |-> <<"get_guids">>]
        ELSE [code |-> 0, exc |-> None, jobs |-> moved_jobs, store |-> m.store,
              calls |-> <<"get_guids", "move">>
                        \o (IF answer THEN <<"jobs_storage.save">> ELSE <<>>)]

\* Lines 696-730 of modify_urls for --change-location query new_loc on the
\* jobs and the store st, the user answering the question of line 724 with
\* yes or not, the store failing as io says: the exit code or the exception,
\* the jobs and the store afterwards, and the calls made on the store and on
\* the jobs file.
ChangeLocation(jobs, st, query, new_loc, answer, io) ==
    IF \E k \in 1..Len(jobs) : get_location(jobs[k]) = new_loc
    THEN [code |-> 1, exc |-> None, jobs |-> jobs, store |-> st, calls |-> <<>>]
    ELSE LET at == FoundAt(jobs, query) IN
         IF at = 0
         THEN [code |-> 1, exc |-> None, jobs |-> jobs, store |-> st, calls |-> <<>>]
         ELSE LET job == jobs[at]
                  old_guid == get_guid(job)
                  moved_job == set_base_location(job, new_loc)
                  moved_jobs == [jobs EXCEPT ![at] = moved_job]
                  m == StoreMove(st, old_guid, get_guid(moved_job))
              IN  IF io = "get_guids"
                  THEN [code |-> 1, exc |-> Exc("OSError", "get_guids"), jobs |-> jobs,
                        store |-> st, calls |-> <<"get_guids">>]
                  ELSE IF old_guid \notin StoreGuids(st)
                  THEN [code |-> 1, exc |-> None, jobs |-> jobs, store |-> st,
                        calls |-> <<"get_guids">>]
                  ELSE IF io = "move"
                  THEN [code |-> 1, exc |-> Exc("OSError", "move"), jobs |-> moved_jobs,
                        store |-> st, calls |-> <<"get_guids", "move">>]
                  ELSE [code |-> 0, exc |-> None, jobs |-> moved_jobs,
                        store |-> m.store,
                        calls |-> <<"get_guids", "move">>
                                  \o (IF answer THEN <<"jobs_storage.save">> ELSE <<>>)]

\* modify_urls() with --change-location alone.
ModifyUrls(query, new_loc, answer, io) ==
    /\ LET r == ChangeLocation(urlwatcher_jobs, store, query, new_loc, answer, io) IN
        /\ urlwatcher_jobs' = r.jobs
        /\ store' = r.store
        /\ last' = [Outcome("modify_urls", 1,
                            [query |-> query, new_loc |-> new_loc, io |-> io],
                            urlwatcher_jobs, store,
                            IF r.exc = None THEN "returned" ELSE "raised", r.exc,
                            r.calls, EmptyStr)
                        EXCEPT !.code = r.code]
    /\ UNCHANGED <<js, now, pycharm, saved, Report_job_states, reports, config, batch>>

\* A command naming a job starts on some jobs file, any list of up to three
\* of the jobs, and some store.
InitJobs ==
    /\ \E h \in SampleHistories : \E n1, n2 \in {0, 1, 2} :
            store = [g \in Guids |-> SubSeq(h, 1, IF g = get_guid("j1") THEN n1 ELSE n2)]
    /\ js = [i \in JobStateIds |-> NewJobState("db", IF i = 1 THEN "j1" ELSE "j2")]
    /\ now = Epoch + 1
    /\ pycharm = FALSE
    /\ saved = [g \in Guids |-> NoSnapshot]
    /\ Report_job_states = <<>>
    /\ reports = [r \in ReportIds |-> NewReport]
    /\ config = [display |-> [v \in DisplayKeys |-> TRUE], tz |-> "None"]
    /\ urlwatcher_jobs \in UNION { [1..n -> Jobs] : n \in 0..3 }
    /\ batch = NoBatch
    /\ last = Outcome("init", 1, "-", NewJobState("db", "j1"), store, "returned",
                      None, <<>>, EmptyStr)

NextJobs ==
    \/ \E job_id \in JobIds : GetJob(job_id)
    \/ \E job_id \in JobIds : DeleteSnapshot(job_id)
    \/ \E i \in JobStateIds, temporary \in BOOLEAN : DeleteLatest(i, temporary)

SpecJobs == InitJobs /\ [][NextJobs]_vars

\* A command on the jobs file starts on any list of up to three of the jobs,
\* the store holding two snapshots or none of each.
InitMove ==
    /\ \E n1, n2 \in {0, 2} :
            store = [g \in Guids |->
                        SubSeq(<< Snapshot(<<"B">>, Epoch + 1, 0, "e1", "text/html"),
                                  Snapshot(<<"A">>, Epoch, 1, "", "text/plain") >>,
                               1, IF g = get_guid("j1") THEN n1 ELSE n2)]
    /\ js = [i \in JobStateIds |-> NewJobState("db", IF i = 1 THEN "j1" ELSE "j2")]
    /\ now = Epoch + 1
    /\ pycharm = FALSE
    /\ saved = [g \in Guids |-> NoSnapshot]
    /\ Report_job_states = <<>>
    /\ reports = [r \in ReportIds |-> NewReport]
    /\ config = [display |-> [v \in DisplayKeys |-> TRUE], tz |-> "None"]
    /\ urlwatcher_jobs \in UNION { [1..n -> Jobs] : n \in 0..3 }
    /\ batch = NoBatch
    /\ last = Outcome("init", 1, "-", NewJobState("db", "j1"), store, "returned",
                      None, <<>>, EmptyStr)

\* --change-location names the job to move by index or by location, and a
\* location for it.
NextMove ==
    \E query \in { Index(n) : n \in (0 - 4)..4 } \cup { Location(job) : job \in Jobs },
       job \in Jobs, answer \in BOOLEAN, io \in StoreFailures :
        ModifyUrls(query, get_location(job), answer, io)

SpecMove == InitMove /\ [][NextMove]_vars

\* --errors with a joblist of up to two index numbers, some of them 0 or
\* beyond the jobs.
NextSelect ==
    \E joblist \in UNION { [1..n -> (0 - 4)..4] : n \in 0..2 } : SelectErrorJobs(joblist)

SpecSelect == InitMove /\ [][NextSelect]_vars

\* ------------------------------------------- the line of a processed job

\* The JobStates process() can have returned to error_jobs_lines, their data
\* empty, whitespace only or with content.
InitLines ==
    /\ store = NoStore
    /\ \E job \in Jobs,
          new_data \in { Unset, EmptyStr, <<" ">>, <<"\n", " ">>, <<"A">>, <<" ", "A", "\n">> },
          old_data \in { EmptyStr, <<" ">>, <<"\n", " ">>, <<"A">>, <<" ", "A", "\n">> },
          exception \in {None, Exc("NotModifiedError", "retrieve"),
                         Exc("ValueError", "retrieve")} :
          js = [i \in JobStateIds |->
                    [NewJobState("db", job) EXCEPT !.new_data = new_data,
                                                   !.old_data = old_data,
                                                   !.exception = exception]]
    /\ now = Epoch + 1
    /\ pycharm = FALSE
    /\ saved = [g \in Guids |-> NoSnapshot]
    /\ Report_job_states = <<>>
    /\ reports = [r \in ReportIds |-> NewReport]
    /\ config = [display |-> [v \in DisplayKeys |-> TRUE], tz |-> "None"]
    /\ urlwatcher_jobs = JobList
    /\ batch = NoBatch
    /\ last = Outcome("init", 1, "-", js[1], store, "returned", None, <<>>, EmptyStr)

\* The body of the loop of error_jobs_lines, lines 564-588, for the JobState
\* the iterator gave.
YieldErrorJobLine(i) ==
    /\ last' = Outcome("error_jobs_lines", i, "-", js[i], store, "returned", None,
                       <<>>, ErrorJobLine(js[i]))
    /\ UNCHANGED <<store, js, now, pycharm, saved, Report_job_states, reports, config,
                   urlwatcher_jobs, batch>>

NextLines == \E i \in Running : YieldErrorJobLine(i)

SpecLines == InitLines /\ [][NextLines]_vars

\* ------------------------------------------------------------ C25 .. C30

\* C25: load() of a job with compared_versions above 1 asks the store for
\* exactly that many snapshots of the job's GUID and indexes them by their
\* data; with compared_versions unset, 0 or 1 it asks for no history and only
\* loads the latest snapshot.
C25_LoadsComparedVersions ==
    (last.op = "load" /\ last.result = "returned") =>
        LET cv == JobComparedVersions(Cur.job)
            stored == store[get_guid(Cur.job)]
            n == IF cv < Len(stored) THEN cv ELSE Len(stored)
        IN  IF cv > 1
            THEN /\ last.calls = <<"load", "get_history_snapshots">>
                 /\ \A e \in Cur.history_dic_snapshots :
                        \E k \in 1..n : e = stored[k]
                 /\ \A k \in 1..n :
                        \E e \in Cur.history_dic_snapshots : e.data = stored[k].data
                 /\ \A e1, e2 \in Cur.history_dic_snapshots :
                        e1.data = e2.data => e1 = e2
            ELSE /\ last.calls = <<"load">>
                 /\ Cur.history_dic_snapshots = last.pre.history_dic_snapshots

\* The job comparing three versions was loaded from a store holding five
\* snapshots of different data: three of them are indexed.
C25_Witness ==
    /\ last.op = "load"
    /\ last.result = "returned"
    /\ JobComparedVersions(Cur.job) = 3
    /\ Len(store[get_guid(Cur.job)]) = 5
    /\ Cardinality(Cur.history_dic_snapshots) = 3

\* The job with compared_versions: 1 was loaded from a store with snapshots,
\* and no history was asked for.
C25_WitnessOne ==
    /\ last.op = "load"
    /\ last.result = "returned"
    /\ Cur.job = "j3"
    /\ Len(store[get_guid(Cur.job)]) = 5
    /\ Cur.old_data = <<"E">>

\* C26: deleting the latest snapshot of a job without snapshots is no error:
\* nothing is raised, the store stays as it is and delete_snapshot returns 1;
\* with at least one snapshot it returns 0 and exactly the most recent
\* snapshot of the job's GUID is gone.
C26_DeleteLatestOfNone ==
    /\ (last.op = "delete_snapshot" /\ last.calls # <<>>) =>
          LET guid == get_guid(_get_job(urlwatcher_jobs, last.arg).job)
              before == last.prestore[guid]
          IN  /\ last.result = "returned"
              /\ \A g \in Guids \ {guid} : store[g] = last.prestore[g]
              /\ IF before = <<>>
                 THEN last.ret = 1 /\ store = last.prestore
                 ELSE /\ last.ret = 0
                      /\ Len(store[guid]) = Len(before) - 1
                      /\ \A k \in 1..Len(store[guid]) : store[guid][k] = before[k + 1]
    /\ (last.op = "delete_latest" /\ last.pre.snapshots_db # "None") =>
          LET guid == get_guid(last.pre.job)
              before == last.prestore[guid]
          IN  /\ last.result = "returned"
              /\ \A g \in Guids \ {guid} : store[g] = last.prestore[g]
              /\ IF before = <<>> THEN store = last.prestore
                 ELSE /\ Len(store[guid]) = Len(before) - 1
                      /\ \A k \in 1..Len(store[guid]) : store[guid][k] = before[k + 1]

\* delete_snapshot has found the job, whose GUID has no snapshot while the
\* other GUID has some, and returned 1.
C26_Witness ==
    /\ last.op = "delete_snapshot"
    /\ last.result = "returned"
    /\ last.ret = 1
    /\ store = last.prestore
    /\ \E g \in Guids : store[g] # <<>>

\* delete_snapshot has removed the most recent of two snapshots.
C26_WitnessDeleted ==
    /\ last.op = "delete_snapshot"
    /\ last.result = "returned"
    /\ last.ret = 0
    /\ \E g \in Guids : Len(last.prestore[g]) = 2 /\ store[g] = Tail(last.prestore[g])

\* C28 as stated: _get_job raises SystemExit(1) for every integer job id that
\* names none of the n jobs (0, above n, below -n), and for 1..n or -n..-1 it
\* returns the job at that position, a negative one counted from the end.
C28_GetJobByIndex ==
    (last.op = "_get_job" /\ last.arg.kind = "int") =>
        LET n == Len(urlwatcher_jobs)
            job_id == last.arg.val
        IN  IF 1 <= job_id /\ job_id <= n
            THEN last.result = "returned" /\ last.ret = urlwatcher_jobs[job_id]
            ELSE IF 0 - n <= job_id /\ job_id <= 0 - 1
                 THEN last.result = "returned" /\ last.ret = urlwatcher_jobs[n + job_id + 1]
                 ELSE last.result = "raised" /\ last.exc.cls = "SystemExit(1)"

\* What holds of _get_job for the job ids from -(n + 1) on: the jobs named
\* are returned, and 0, -(n + 1) and the ids above n raise SystemExit(1).
C28_GetJobFromMinusN ==
    (last.op = "_get_job" /\ last.arg.kind = "int"
        /\ last.arg.val >= 0 - (Len(urlwatcher_jobs) + 1)) =>
        LET n == Len(urlwatcher_jobs)
            job_id == last.arg.val
        IN  IF 1 <= job_id /\ job_id <= n
            THEN last.result = "returned" /\ last.ret = urlwatcher_jobs[job_id]
            ELSE IF 0 - n <= job_id /\ job_id <= 0 - 1
                 THEN last.result = "returned" /\ last.ret = urlwatcher_jobs[n + job_id + 1]
                 ELSE last.result = "raised" /\ last.exc.cls = "SystemExit(1)"

\* _get_job(-5) over three jobs has returned the last job.
C28_Witness ==
    /\ last.op = "_get_job"
    /\ last.arg = Index(0 - 5)
    /\ Len(urlwatcher_jobs) = 3
    /\ last.result = "returned"
    /\ last.ret = urlwatcher_jobs[3]

\* C27: the test paths never persist anything: however test_job and
\* test_diff end, they make no save, delete_latest or move on the store, and
\* the history of every GUID is after the command what it was before.
C27_TestPathsPersistNothing ==
    last.op \in {"test_job", "test_diff"} =>
        /\ store = last.prestore
        /\ \A k \in 1..Len(last.calls) :
                last.calls[k] \notin {"save", "delete_latest", "move"}
        /\ \A g \in Guids : saved[g] = NoSnapshot

\* test_job has retrieved and filtered data that differs from the stored
\* snapshot, and the store still holds the three snapshots it held.
C27_Witness ==
    /\ last.op = "test_job"
    /\ last.result = "returned"
    /\ Cur.new_data # Unset
    /\ Len(store[get_guid(Cur.job)]) = 3
    /\ Cur.new_data # Head(store[get_guid(Cur.job)]).data

\* test_job has ended with the exception of the job, over a store with
\* snapshots.
C27_WitnessRaised ==
    /\ last.op = "test_job"
    /\ last.result = "raised"
    /\ store # NoStore

\* C29: error_jobs_lines gives at most one line for a processed job: an
\* "Error" line if and only if the exception is set and is not the
\* not-modified signal; a "No data" line if and only if there is no such
\* exception and the relevant data (new_data when set, old_data otherwise) is
\* empty once stripped; no line otherwise.
C29_OneLinePerJob ==
    last.op = "error_jobs_lines" =>
        LET s == last.pre
            line == last.ret
            error == s.exception # None /\ s.exception.cls # "NotModifiedError"
            relevant == IF s.new_data # Unset THEN s.new_data ELSE s.old_data
            blank == \A k \in 1..Len(relevant) : relevant[k] \in {" ", "\n"}
        IN  /\ line \in {<<>>, <<"Error", s.job>>, <<"No data", s.job>>}
            /\ line = <<"Error", s.job>> <=> error
            /\ line = <<"No data", s.job>> <=> (~error /\ blank)

\* A job that was not modified and whose old data is only whitespace gives a
\* "No data" line.
C29_Witness ==
    /\ last.op = "error_jobs_lines"
    /\ last.pre.exception.cls = "NotModifiedError"
    /\ last.pre.new_data = Unset
    /\ last.pre.old_data = <<"\n", " ">>
    /\ last.ret = <<"No data", last.pre.job>>

\* C30: after get_diff(k) on a fresh JobState the diff_filter chain was
\* applied, in its order, to the diff of kind k only: generated_diff holds the
\* one key k, with the filtered diff, and unfiltered_diff holds the differ's
\* output as the differ gave it for every kind it returned, k among them.
C30_FiltersRequestedKindOnly ==
    (/\ last.op = "get_diff"
     /\ last.result = "returned"
     /\ last.pre.generated_diff = EmptyMap
     /\ last.pre.unfiltered_diff = EmptyMap) =>
        LET k == last.arg[1]
            raw == Cur.unfiltered_diff
            chain == JobDiffFilter(Cur.job)
        IN  /\ DOMAIN Cur.generated_diff = {k}
            /\ k \in DOMAIN raw
            /\ \A x \in DOMAIN raw :
                    raw[x] = IF last.pre.old_data = last.pre.new_data THEN EmptyStr
                             ELSE <<"diff", x, last.arg[2], last.arg[3]>>
            /\ Cur.generated_diff[k] = IF raw[k] = EmptyStr THEN EmptyStr
                                       ELSE raw[k] \o chain
            /\ last.ret = Cur.generated_diff[k]
            /\ last.calls = <<"differ">> \o (IF raw[k] = EmptyStr THEN <<>> ELSE chain)

\* The first get_diff of a job with two diff filters, for the html report:
\* the differ returned all three kinds, and only the html diff is filtered.
C30_Witness ==
    /\ last.op = "get_diff"
    /\ last.result = "returned"
    /\ last.pre.generated_diff = EmptyMap
    /\ last.pre.unfiltered_diff = EmptyMap
    /\ last.arg[1] = "html"
    /\ DOMAIN Cur.unfiltered_diff = Kinds
    /\ Cur.unfiltered_diff["text"] = <<"diff", "text", last.arg[2], last.arg[3]>>
    /\ Cur.generated_diff["html"] = <<"diff", "html", last.arg[2], last.arg[3], "df1", "df2">>

\* ------------------------------------------------------------ C31 .. C40

\* C31 as stated: when ignore_error raises H while a failure of the body is
\* handled, and format_error does not raise, process() returns with
\* error_ignored False, exception H, the traceback set, and tries one above
\* the loaded value, or equal to it when H is the not-modified signal.
C31_HookFailureRecorded ==
    (/\ last.op = "process"
     /\ last.ignore = "raised"
     /\ ~(last.result = "raised" /\ last.exc.by = "format_error"))
        => /\ last.result = "returned"
           /\ Cur.error_ignored = "False"
           /\ Cur.exception = last.hook
           /\ Cur.traceback = <<"error", last.hook.cls, last.hook.by>>
           /\ Cur.tries = Cur.old_snapshot.tries
                            + (IF last.hook.cls = "NotModifiedError" THEN 0 ELSE 1)

\* C31, amended: the same, when PYCHARM_HOSTED is not set; when it is set the
\* exception H of ignore_error leaves process(), with the failure of the body
\* still recorded and tries as loaded.
C31_HookFailureRecordedUnlessHosted ==
    (/\ last.op = "process"
     /\ last.ignore = "raised"
     /\ ~(last.result = "raised" /\ last.exc.by = "format_error"))
        => IF pycharm
           THEN /\ last.result = "raised"
                /\ last.exc = last.hook
                /\ Cur.exception = last.body
                /\ Cur.tries = Cur.old_snapshot.tries
           ELSE /\ last.result = "returned"
                /\ Cur.error_ignored = "False"
                /\ Cur.exception = last.hook
                /\ Cur.traceback = <<"error", last.hook.cls, last.hook.by>>
                /\ Cur.tries = Cur.old_snapshot.tries
                                 + (IF last.hook.cls = "NotModifiedError" THEN 0 ELSE 1)

\* The not-modified answer of a retrieval over a stored failed run, whose
\* ignore_error raised a ValueError: process() returned with that error
\* recorded and counted.
C31_Witness ==
    /\ last.op = "process"
    /\ ~pycharm
    /\ last.body = Exc("NotModifiedError", "retrieve")
    /\ last.hook = Exc("ValueError", "ignore_error")
    /\ last.result = "returned"
    /\ Cur.old_snapshot.tries > 0
    /\ Cur.exception = last.hook
    /\ Cur.tries = Cur.old_snapshot.tries + 1

\* C32: in process(), after a retrieval that succeeded, the automatic filter
\* is called exactly once and before any explicit filter, also for a job
\* without filters; the explicit filters are called in the order of the list,
\* each on the data and mime type the stage before it returned, and new_data
\* and new_mime_type are what the last stage returned.
C32_AutoFilterThenListedFilters ==
    (/\ Ran
     /\ Contains(last.calls, "retrieve")
     /\ last.body # None => last.body.by # "retrieve")
        => LET listed == IF Cur.job = "j1" THEN <<"f1", "f2">> ELSE <<>>
               at == CHOOSE k \in 1..Len(last.calls) : last.calls[k] = "retrieve"
               called == [k \in 1..Cardinality({ j \in 1..Len(last.calls) :
                                                    last.calls[j] \in {"f1", "f2"} })
                            |-> last.calls[at + 1 + k]]
           IN  /\ Len(last.calls) > at
               /\ last.calls[at + 1] = "auto_process"
               /\ Cardinality({ j \in 1..Len(last.calls) :
                                    last.calls[j] = "auto_process" }) = 1
               /\ \A j \in 1..Len(last.calls) :
                        last.calls[j] \in {"f1", "f2"}
                            => j > at + 1 /\ j <= at + 1 + Len(called)
               /\ Len(called) <= Len(listed)
               /\ called = SubSeq(listed, 1, Len(called))
               /\ last.body = None =>
                    /\ called = listed
                    /\ \E r \in Retrieved :
                        /\ Cur.new_etag = r[2]
                        /\ Cur.new_data = r[1] \o <<"auto">> \o listed
                        /\ Cur.new_mime_type =
                                IF listed = <<>> THEN r[3] ELSE "text/plain"
               /\ (last.body # None /\ last.body.by = "auto_process") => called = <<>>

\* A run of the job with two filters on retrieved html: the automatic
\* filter, then both filters in their order, the first of which made the
\* data plain text.
C32_Witness ==
    /\ Ran
    /\ last.body = None
    /\ Cur.job = "j1"
    /\ Cur.new_etag = "e1"
    /\ Cur.new_data = <<"A", "auto", "f1", "f2">>
    /\ Cur.new_mime_type = "text/plain"

\* C33: one process() on a fresh JobState changes the error counter by at
\* most one: when it returns, tries is the tries of the old snapshot or one
\* more, whatever fails in load, retrieval, filters and hooks, also when the
\* inner and the outer handler both run.
C33_TriesChangeByAtMostOne ==
    (/\ last.op = "process"
     /\ last.pre = NewJobState("db", Cur.job)
     /\ last.result = "returned")
        => Cur.tries \in {Cur.old_snapshot.tries, Cur.old_snapshot.tries + 1}

\* Both handlers ran on a fresh JobState over a stored failed run: the filter
\* failed, ignore_error raised, and tries is one above the loaded value.
C33_Witness ==
    /\ last.op = "process"
    /\ last.pre = NewJobState("db", Cur.job)
    /\ last.result = "returned"
    /\ last.body.by = "f2"
    /\ last.hook = Exc("ValueError", "ignore_error")
    /\ Cur.old_snapshot.tries = 1
    /\ Cur.tries = 2

\* C34: new_data is assigned at the end of the pipeline only: after a
\* process() on a fresh JobState has returned, new_data and new_mime_type are
\* assigned if and only if exception is None; a failure of load, retrieval,
\* automatic filter or explicit filter leaves no content in new_data.
C34_NewDataOnlyOnSuccess ==
    (/\ last.op = "process"
     /\ last.pre = NewJobState("db", Cur.job)
     /\ last.result = "returned")
        => /\ Cur.new_data # Unset <=> Cur.exception = None
           /\ Cur.exception = None
                => /\ Len(Cur.new_data) > 0
                   /\ Cur.new_data[Len(Cur.new_data)]
                        = (IF Cur.job = "j1" THEN "f2" ELSE "auto")
                   /\ Cur.new_mime_type \in {"text/plain", "text/html"}
           /\ Cur.exception # None
                => /\ Cur.new_data = last.pre.new_data
                   /\ Cur.new_mime_type = last.pre.new_mime_type

\* The second filter failed on data the retrieval, the automatic filter and
\* the first filter had returned: new_data is not assigned.
C34_Witness ==
    /\ last.op = "process"
    /\ last.pre = NewJobState("db", Cur.job)
    /\ last.result = "returned"
    /\ last.body = Exc("ValueError", "f2")
    /\ Cur.new_etag = "e1"
    /\ Cur.exception # None
    /\ Cur.new_data = Unset

\* C35: when the differ's output for the requested kind is the empty string,
\* get_diff returns the empty string, keeps it as the generated diff of that
\* kind and calls no diff filter, whatever diff_filter the job has.
C35_EmptyDiffSkipsFilters ==
    (/\ last.op = "get_diff"
     /\ last.arg[1] \in DOMAIN Cur.unfiltered_diff
     /\ Cur.unfiltered_diff[last.arg[1]] = <<>>)
        => /\ last.result = "returned"
           /\ last.ret = <<>>
           /\ last.arg[1] \in DOMAIN Cur.generated_diff
           /\ Cur.generated_diff[last.arg[1]] = <<>>
           /\ \A k \in 1..Len(last.calls) : last.calls[k] \notin {"df1", "df2"}

\* The job with two diff filters, its data unchanged: the differ ran and
\* returned the empty diff, which get_diff has just generated for this kind.
C35_Witness ==
    /\ last.op = "get_diff"
    /\ Cur.job = "j1"
    /\ last.calls = <<"differ">>
    /\ last.arg[1] \notin DOMAIN last.pre.generated_diff
    /\ last.result = "returned"
    /\ last.ret = <<>>
    /\ Cur.generated_diff[last.arg[1]] = <<>>

\* C36: the memo of get_diff is keyed by the report kind alone: once the diff
\* of a kind was generated, every later call for that kind returns that
\* string whatever differ and timezone it names, and the differ is called
\* only for a kind that no earlier result of the differ covers, at most once
\* in a call.
C36_MemoKeyedByKindAlone ==
    /\ [](last.op = "get_diff" =>
            /\ last.arg[1] \in DOMAIN last.pre.generated_diff
                    => /\ last.result = "returned"
                       /\ last.ret = last.pre.generated_diff[last.arg[1]]
            /\ Contains(last.calls, "differ")
                    => /\ last.arg[1] \notin DOMAIN last.pre.unfiltered_diff
                       /\ Cardinality({ k \in 1..Len(last.calls) :
                                            last.calls[k] = "differ" }) = 1)
    /\ [][\A i \in Running : \A k \in DOMAIN js[i].generated_diff :
            /\ k \in DOMAIN js'[i].generated_diff
            /\ js'[i].generated_diff[k] = js[i].generated_diff[k]
            /\ (last'.op = "get_diff" /\ last'.id = i /\ last'.arg[1] = k)
                    => last'.ret = js[i].generated_diff[k]]_vars

\* A later call for 'html' naming another differ and timezone: the differ is
\* not called and the diff of the first call, made by the job's differ
\* without a timezone, is returned.
C36_Witness ==
    /\ last.op = "get_diff"
    /\ last.arg = <<"html", "override", "UTC">>
    /\ last.calls = <<>>
    /\ DOMAIN Cur.generated_diff = Kinds
    /\ last.ret = <<"diff", "html", "job", "None", "df1", "df2">>

\* C37: the selection of jobs in the error enumeration over n jobs: a joblist
\* entry that is 0 or outside -n..-1 and 1..n raises IndexError before any job
\* is processed; otherwise the jobs processed are exactly those whose index
\* number is an entry, a negative entry idx standing for n + idx + 1, in the
\* order of the jobs file and each once however often it is listed.
C37_JoblistSelectsSubset ==
    (last.op = "select_jobs" /\ last.arg # <<>>) =>
        LET n == Len(urlwatcher_jobs)
            joblist == last.arg
            valid(idx) == (0 - n <= idx /\ idx <= 0 - 1) \/ (1 <= idx /\ idx <= n)
            named(i) == \E k \in 1..Len(joblist) :
                            joblist[k] = i \/ (joblist[k] < 0 /\ n + joblist[k] + 1 = i)
        IN  IF \E k \in 1..Len(joblist) : ~valid(joblist[k])
            THEN /\ last.result = "raised"
                 /\ last.exc.cls = "IndexError"
                 /\ last.ret = <<>>
            ELSE /\ last.result = "returned"
                 /\ \A i \in 1..n : named(i) <=> Contains(last.ret, i)
                 /\ \A a \in 1..Len(last.ret) : last.ret[a] \in 1..n
                 /\ \A a, b \in 1..Len(last.ret) : a < b => last.ret[a] < last.ret[b]

\* Of three jobs the joblist names the last one twice, as 3 and as -1, after
\* the first: the first and the last are selected, in the order of the file.
C37_Witness ==
    /\ last.op = "select_jobs"
    /\ Len(urlwatcher_jobs) = 3
    /\ last.arg \in { <<3, 0 - 1>>, <<0 - 1, 1>> }
    /\ last.ret \in { <<3>>, <<1, 3>> }

C39_ClosedOnceAfterProcess ==
    batch.pc # "idle" =>
        /\ batch.pc \in {"map", "collect"} => \A k \in Tasks(batch) : batch.exits[k] = 0
        /\ batch.pc \in {"joined", "raised", "finished"} =>
                \A k \in Tasks(batch) :
                    /\ batch.exits[k] = 1
                    /\ batch.exit_when[k] \in {"done", "cancelled"}

\* The part of C39 that holds: exactly one exit of every JobState on every
\* way out, none before, and after the last result every process() call has
\* returned before the exit.
C39_ClosedExactlyOnce ==
    batch.pc # "idle" =>
        /\ batch.pc \in {"map", "collect"} => \A k \in Tasks(batch) : batch.exits[k] = 0
        /\ batch.pc \in {"joined", "raised", "finished"} =>
                \A k \in Tasks(batch) : batch.exits[k] = 1
        /\ batch.pc \in {"joined", "finished"} =>
                \A k \in Tasks(batch) : batch.exit_when[k] = "done"

\* The process() call of the first job raised while that of the second was
\* still running in another thread: both JobStates were exited.
C39_ExitedWhileRunning ==
    /\ batch.pc = "raised"
    /\ batch.collected = <<1>>
    /\ batch.exits[2] = 1
    /\ batch.exit_when[2] = "running"

\* C40: a failed change-location leaves everything unchanged: when the new
\* location is already used by some job, when the job to move is not found,
\* or when the old GUID has no snapshots in the store, modify_urls returns 1
\* without changing any job's location, without calling the store's move and
\* without saving the jobs file; only otherwise is the job's location
\* changed and the history moved from the old GUID to the new GUID.
C40_FailedChangeLocationChangesNothing ==
    last.op = "modify_urls" =>
        LET jobs == last.pre
            new_loc == last.arg.new_loc
            job == _find_job(jobs, last.arg.query)
            used == \E k \in 1..Len(jobs) : get_location(jobs[k]) = new_loc
            failed == \/ used
                      \/ job = NoJob
                      \/ last.prestore[get_guid(job)] = <<>>
            changed == { k \in 1..Len(jobs) : urlwatcher_jobs[k] # jobs[k] }
        IN  /\ Len(urlwatcher_jobs) = Len(jobs)
            /\ failed =>
                    /\ (last.result = "returned" /\ last.code = 1)
                            \/ (~used /\ job # NoJob /\ last.arg.io = "get_guids")
                    /\ changed = {}
                    /\ store = last.prestore
                    /\ ~Contains(last.calls, "move")
                    /\ ~Contains(last.calls, "jobs_storage.save")
            /\ (changed # {} \/ Contains(last.calls, "move") \/ store # last.prestore)
                    => ~failed
            /\ (~failed /\ last.arg.io = "none") =>
                    /\ last.result = "returned"
                    /\ last.code = 0
                    /\ Cardinality(changed) = 1
                    /\ \A k \in changed :
                        /\ jobs[k] = job
                        /\ get_location(urlwatcher_jobs[k]) = new_loc
                        /\ store[get_guid(jobs[k])] = <<>>
                        /\ SubSeq(store[get_guid(urlwatcher_jobs[k])], 1,
                                  Len(last.prestore[get_guid(jobs[k])]))
                                = last.prestore[get_guid(jobs[k])]
                    /\ SubSeq(last.calls, 1, 2) = <<"get_guids", "move">>

\* The first of two jobs of the same location is moved to a location no job
\* has, the store having two snapshots of it: the second keeps its location
\* and the snapshots are under the new GUID.
C40_Witness ==
    /\ last.op = "modify_urls"
    /\ last.pre = <<"j1", "j1">>
    /\ urlwatcher_jobs = <<"j2", "j1">>
    /\ last.code = 0
    /\ Len(last.prestore["guid1"]) = 2
    /\ store["guid1"] = <<>>
    /\ Len(store["guid2"]) >= 2
    /\ last.calls = <<"get_guids", "move", "jobs_storage.save">>

\* A change-location that failed for want of snapshots of the old GUID.
C40_WitnessNoSnapshots ==
    /\ last.op = "modify_urls"
    /\ last.pre = <<"j1">>
    /\ last.arg.new_loc = get_location("j2")
    /\ last.prestore["guid1"] = <<>>
    /\ last.calls = <<"get_guids">>
    /\ last.code = 1
    /\ urlwatcher_jobs = <<"j1">>

====
